---- MODULE Spec2Model ----
(***************************************************************************)
(* Verification model of the reporting-data dashboards:                    *)
(*   src/pages/Agent_Occupancy.py         (occupancy page)                 *)
(*   src/streamlit_app.py                 (not-ready page)                 *)
(*   src/pages/Productivity_Exceptions.py (exceptions page)                *)
(*                                                                         *)
(* A Python str is a tuple of one-character strings, so that split(':')    *)
(* and int() are computed character by character.  A cell value is a       *)
(* record [t, s, n]: a str (t = "str", characters s), a float NaN          *)
(* (t = "nan"), None (t = "none") or a number (t = "num", value n).        *)
(***************************************************************************)
EXTENDS Integers, Sequences, FiniteSets, TLC

VARIABLES
    seconds,        \* argument handed to format_time
    fmt_ret,        \* outcome of format_time(seconds)
    time_str,       \* argument handed to the two time_to_seconds functions
    occ_ret,        \* outcome of Agent_Occupancy.time_to_seconds(time_str)
    nr_ret,         \* outcome of streamlit_app.time_to_seconds(time_str)
    page,           \* which page script runs
    uploaded_file,  \* st.file_uploader value: NoFile or the uploaded CSV
    df,             \* DataFrame of pd.read_csv (NoFrame before the read)
    processed_df,   \* occupancy page: frame returned by process_data
    agent_total,    \* not-ready page: the per-agent totals of line 66
    pc,             \* position of the script run
    out             \* what the pass has rendered so far, in order

vars == <<seconds, fmt_ret, time_str, occ_ret, nr_ret, page, uploaded_file, df, processed_df, agent_total, pc, out>>

-----------------------------------------------------------------------------
(* Values *)

Str(s) == [t |-> "str", s |-> s, n |-> 0]

Num(n) == [t |-> "num", s |-> <<>>, n |-> n]

NaN == [t |-> "nan", s |-> <<>>, n |-> 0]

None == [t |-> "none", s |-> <<>>, n |-> 0]

Digits == {"0", "1", "2", "3", "4", "5", "6", "7", "8", "9"}

DigitVal(c) ==
    CASE c = "0" -> 0 [] c = "1" -> 1 [] c = "2" -> 2 [] c = "3" -> 3
      [] c = "4" -> 4 [] c = "5" -> 5 [] c = "6" -> 6 [] c = "7" -> 7
      [] c = "8" -> 8 [] c = "9" -> 9

-----------------------------------------------------------------------------
(* Python built-ins used by time_to_seconds *)

\* str.split(sep): the parts between occurrences of sep ("" gives one empty part)
RECURSIVE PySplit(_, _)
PySplit(s, sep) ==
    IF \A i \in 1..Len(s) : s[i] # sep
    THEN <<s>>
    ELSE LET k == CHOOSE i \in 1..Len(s) :
                      s[i] = sep /\ \A j \in 1..(i - 1) : s[j] # sep
         IN  <<SubSeq(s, 1, k - 1)>> \o PySplit(SubSeq(s, k + 1, Len(s)), sep)

\* str.strip() as int() applies it: leading and trailing blanks dropped
RECURSIVE PyStrip(_)
PyStrip(s) ==
    IF s = <<>> THEN s
    ELSE IF s[1] = " " THEN PyStrip(Tail(s))
    ELSE IF s[Len(s)] = " " THEN PyStrip(SubSeq(s, 1, Len(s) - 1))
    ELSE s

\* value of a run of digits in which single underscores may separate digits
RECURSIVE PyDigitsValue(_, _)
PyDigitsValue(s, acc) ==
    IF s = <<>> THEN acc
    ELSE IF s[1] = "_" THEN PyDigitsValue(Tail(s), acc)
    ELSE PyDigitsValue(Tail(s), acc * 10 + DigitVal(s[1]))

\* the body of an integer literal int() accepts: digits, '_' only between digits
PyDigitsOk(s) ==
    /\ s # <<>>
    /\ \A i \in 1..Len(s) : s[i] \in Digits \/ s[i] = "_"
    /\ s[1] # "_" /\ s[Len(s)] # "_"
    /\ \A i \in 1..(Len(s) - 1) : ~(s[i] = "_" /\ s[i + 1] = "_")

\* int(str): [ok, v]; not ok stands for ValueError
PyInt(s) ==
    LET t == PyStrip(s)
        signed == t # <<>> /\ t[1] \in {"+", "-"}
        body == IF signed THEN Tail(t) ELSE t
    IN  IF PyDigitsOk(body)
        THEN [ok |-> TRUE,
              v |-> IF signed /\ t[1] = "-" THEN 0 - PyDigitsValue(body, 0)
                    ELSE PyDigitsValue(body, 0)]
        ELSE [ok |-> FALSE, v |-> 0]

\* variant of ParseBody that accepts only two-character components
ParseBody_TwoDigitsOnly(x) ==
    IF x.t # "str" THEN [exc |-> "AttributeError", val |-> 0]
    ELSE LET parts == PySplit(x.s, ":")
             ints == [i \in 1..Len(parts) |-> PyInt(parts[i])]
         IN  IF Len(parts) = 3 /\ \A i \in 1..3 : ints[i].ok /\ Len(parts[i]) = 2
             THEN [exc |-> "none",
                   val |-> ints[1].v * 3600 + ints[2].v * 60 + ints[3].v]
             ELSE [exc |-> "ValueError", val |-> 0]

\* h, m, s = map(int, time_str.split(':')); return h * 3600 + m * 60 + s
\* [exc, val]: exc is "none" or the exception the statement raises
ParseBody(x) ==
    IF x.t # "str" THEN [exc |-> "AttributeError", val |-> 0]
    ELSE LET parts == PySplit(x.s, ":")
             ints == [i \in 1..Len(parts) |-> PyInt(parts[i])]
         IN  IF Len(parts) = 3 /\ \A i \in 1..3 : ints[i].ok
             THEN [exc |-> "none",
                   val |-> ints[1].v * 3600 + ints[2].v * 60 + ints[3].v]
             ELSE [exc |-> "ValueError", val |-> 0]

\* pd.isna(value) for a scalar
isna(x) == x.t \in {"nan", "none"}

\* outcome of a call: the value returned, the exception that escaped ("none"
\* when it returned) and the st.write messages it rendered
Returned(v, w) == [val |-> v, raised |-> "none", wrote |-> w]

Raised(e) == [val |-> 0, raised |-> e, wrote |-> 0]

\* Agent_Occupancy.time_to_seconds
Occupancy_time_to_seconds(x) ==
    IF isna(x) \/ (x.t = "str" /\ x.s = <<>>) \/ x.t # "str"
    THEN Returned(0, 0)
    ELSE LET b == ParseBody(x)
         IN  IF b.exc = "none" THEN Returned(b.val, 0) ELSE Returned(0, 1)

\* variant of streamlit_app.time_to_seconds without the try/except
NotReady_time_to_seconds_NoExcept(x) ==
    LET b == ParseBody(x)
    IN  IF b.exc = "none" THEN Returned(b.val, 0) ELSE Raised(b.exc)

\* streamlit_app.time_to_seconds
NotReady_time_to_seconds(x) ==
    LET b == ParseBody(x)
    IN  IF b.exc = "none" THEN Returned(b.val, 0) ELSE Returned(0, 0)

-----------------------------------------------------------------------------
(* Inputs of the duration parser *)

MaxLen == 6

Alphabet == {"1", "2", ":", "-", "b"}

RECURSIVE StringsOfLen(_)
StringsOfLen(n) ==
    IF n = 0 THEN {<<>>}
    ELSE {Append(s, c) : s \in StringsOfLen(n - 1), c \in Alphabet}

Strings == UNION {StringsOfLen(n) : n \in 0..MaxLen}

\* "1:2:3", "02:00:00", "100:00:59", "bad", " 1:2:3", "1_0:2:3", "+1:2:3", "1:2:3:4"
NamedStrings ==
    { <<"1", ":", "2", ":", "3">>,
      <<"0", "2", ":", "0", "0", ":", "0", "0">>,
      <<"1", "0", "0", ":", "0", "0", ":", "5", "9">>,
      <<"b", "a", "d">>,
      <<" ", "1", ":", "2", ":", "3">>,
      <<"1", "_", "0", ":", "2", ":", "3">>,
      <<"+", "1", ":", "2", ":", "3">>,
      <<"1", ":", "2", ":", "3", ":", "4">> }

TimeInputs == {Str(s) : s \in Strings \cup NamedStrings} \cup {NaN, None, Num(0), Num(90)}

NotCalled == [val |-> 0, raised |-> "not called", wrote |-> 0]

\* format_time before the call
NotFormatted == [val |-> <<>>, raised |-> "not called"]

NoFile == [present |-> FALSE, readable |-> FALSE, columns |-> {}, rows |-> <<>>]

NoFrame == [columns |-> {}, rows |-> <<>>]

InitParse ==
    /\ time_str \in TimeInputs
    /\ seconds = None
    /\ fmt_ret = NotFormatted
    /\ occ_ret = NotCalled
    /\ nr_ret = NotCalled
    /\ page = "none"
    /\ uploaded_file = NoFile
    /\ df = NoFrame
    /\ processed_df = NoFrame
    /\ agent_total = <<>>
    /\ pc = "parse"
    /\ out = <<>>

CallOccupancyTimeToSeconds ==
    /\ pc = "parse"
    /\ occ_ret = NotCalled
    /\ occ_ret' = Occupancy_time_to_seconds(time_str)
    /\ UNCHANGED <<seconds, fmt_ret, time_str, nr_ret, page, uploaded_file, df, processed_df, pc, out, agent_total>>

CallNotReadyTimeToSeconds ==
    /\ pc = "parse"
    /\ nr_ret = NotCalled
    /\ nr_ret' = NotReady_time_to_seconds(time_str)
    /\ UNCHANGED <<seconds, fmt_ret, time_str, occ_ret, page, uploaded_file, df, processed_df, pc, out, agent_total>>

NextParse == CallOccupancyTimeToSeconds \/ CallNotReadyTimeToSeconds

SpecParse == InitParse /\ [][NextParse]_vars

-----------------------------------------------------------------------------
(* DataFrames: [columns, rows], each row a function from column name to value *)

RECURSIVE SumSeq(_)
SumSeq(s) == IF s = <<>> THEN 0 ELSE s[1] + SumSeq(Tail(s))

\* df[c] as the sequence of its values
Column(f, c) == [i \in 1..Len(f.rows) |-> f.rows[i][c]]

\* text of a CSV cell that pd.read_csv infers as a number
IsNumericText(s) ==
    /\ s # <<>>
    /\ LET body == IF s[1] = "-" THEN Tail(s) ELSE s
       IN  body # <<>> /\ \A i \in 1..Len(body) : body[i] \in Digits

\* pd.read_csv column type inference: a column whose non-empty cells are all
\* numbers is numeric, any other column holds str; an empty cell is NaN
NumericColumn(file, c) ==
    /\ \E i \in 1..Len(file.rows) : file.rows[i][c] # <<>>
    /\ \A i \in 1..Len(file.rows) :
          file.rows[i][c] = <<>> \/ IsNumericText(file.rows[i][c])

read_csv(file) ==
    [columns |-> file.columns,
     rows |-> [i \in 1..Len(file.rows) |->
                 [c \in file.columns |->
                    LET text == file.rows[i][c]
                    IN  IF text = <<>> THEN NaN
                        ELSE IF NumericColumn(file, c) THEN Num(PyInt(text).v)
                        ELSE Str(text)]]]

-----------------------------------------------------------------------------
(* float64 arithmetic of the ratio columns.  A finite float is the exact      *)
(* value w + r/d (w an integer, 0 <= r < d, r/d in lowest terms); the others  *)
(* are the IEEE specials NaN, +inf and -inf.                                  *)

RECURSIVE Gcd(_, _)
Gcd(a, b) == IF b = 0 THEN a ELSE Gcd(b, a % b)

\* the float w + r/d for r >= 0, d > 0 (r may exceed d)
Mixed(w, r, d) ==
    LET g == Gcd(r % d, d)
    IN  [k |-> "fin", w |-> w + (r \div d), r |-> (r % d) \div g, d |-> d \div g]

\* float(n) of an integer
Fin(n) == [k |-> "fin", w |-> n, r |-> 0, d |-> 1]

FNaN == [k |-> "nan", w |-> 0, r |-> 0, d |-> 1]

FInf == [k |-> "inf", w |-> 0, r |-> 0, d |-> 1]

FNegInf == [k |-> "-inf", w |-> 0, r |-> 0, d |-> 1]

\* Series / Series of two integer columns (true division, numpy semantics)
FDiv(a, b) ==
    IF b = 0
    THEN (IF a = 0 THEN FNaN ELSE IF a > 0 THEN FInf ELSE FNegInf)
    ELSE LET n == IF b < 0 THEN 0 - a ELSE a
             d == IF b < 0 THEN 0 - b ELSE b
         IN  Mixed(n \div d, n % d, d)

\* Series * m for a positive integer m
FMul(x, m) == IF x.k = "fin" THEN Mixed(x.w * m, x.r * m, x.d) ELSE x

\* Series.clip(lo, hi) with integer bounds: NaN stays NaN
clip(x, lo, hi) ==
    IF x.k = "nan" THEN x
    ELSE IF x.k = "inf" THEN Fin(hi)
    ELSE IF x.k = "-inf" THEN Fin(lo)
    ELSE IF x.w < lo THEN Fin(lo)
    ELSE IF x.w > hi \/ (x.w = hi /\ x.r > 0) THEN Fin(hi)
    ELSE x

FAdd(x, y) ==
    IF x.k = "fin" /\ y.k = "fin"
    THEN LET l == (x.d \div Gcd(x.d, y.d)) * y.d
         IN  Mixed(x.w + y.w, x.r * (l \div x.d) + y.r * (l \div y.d), l)
    ELSE IF x.k = "nan" \/ y.k = "nan" THEN FNaN
    ELSE IF x.k = "fin" THEN y
    ELSE IF y.k = "fin" \/ x.k = y.k THEN x
    ELSE FNaN

RECURSIVE FSum(_)
FSum(s) == IF s = <<>> THEN Fin(0) ELSE FAdd(s[1], FSum(Tail(s)))

\* x / m for a positive integer m
FOver(x, m) ==
    IF x.k = "fin" THEN Mixed(x.w \div m, (x.w % m) * x.d + x.r, x.d * m) ELSE x

\* Series.mean() of a float column without NaN (NaN for an empty column)
FMean(s) == IF s = <<>> THEN FNaN ELSE FOver(FSum(s), Len(s))

\* Series.mean() of an integer column
IntMean(s) == IF s = <<>> THEN FNaN ELSE FOver(Fin(SumSeq(s)), Len(s))

\* x < y for finite floats
FLess(x, y) == x.w < y.w \/ (x.w = y.w /\ x.r * y.d < y.r * x.d)

\* int(float): truncation toward zero; not ok stands for ValueError/OverflowError
PyIntOfFloat(x) ==
    IF x.k # "fin" THEN [ok |-> FALSE, v |-> 0]
    ELSE [ok |-> TRUE, v |-> IF x.w < 0 /\ x.r > 0 THEN x.w + 1 ELSE x.w]

-----------------------------------------------------------------------------
(* Occupancy page: process_data *)

time_columns ==
    <<"LOGIN TIME", "NOT READY TIME", "WAIT TIME", "RINGING TIME",
      "ON CALL TIME", "ON VOICEMAIL TIME", "ON ACW TIME",
      "AVAILABLE TIME (LOGIN LESS NOT READY)">>

SecondsName(col) == col \o "_SECONDS"

\* variant of replace(0, 1) that leaves zeros in place
replace_0_1_Missing(x) == x

\* Series.replace(0, 1), element-wise
replace_0_1(x) == IF x = 0 THEN 1 ELSE x

\* Series.fillna('') of a name cell
fillna_empty(x) == IF isna(x) THEN Str(<<>>) ELSE x

TimeColumnsIn(cols) == {time_columns[i] : i \in 1..Len(time_columns)} \cap cols

\* lines 84-86 for one record: a '<col>_SECONDS' value per time column present
AddSeconds(r, cols) ==
    [k \in cols \cup {SecondsName(col) : col \in TimeColumnsIn(cols)} |->
       IF k \in cols THEN r[k]
       ELSE Occupancy_time_to_seconds(
                r[CHOOSE col \in TimeColumnsIn(cols) : SecondsName(col) = k]).val]

\* st.write messages of time_to_seconds while line 86 converts one record
RowWrites(r, cols) ==
    SumSeq([i \in 1..Len(time_columns) |->
              IF time_columns[i] \in cols
              THEN Occupancy_time_to_seconds(r[time_columns[i]]).wrote ELSE 0])

\* lines 89-98 for one record that has its '<col>_SECONDS' values
DeriveRow(r) ==
    LET active == r["ON CALL TIME_SECONDS"] + r["ON ACW TIME_SECONDS"]
        login == replace_0_1(r["LOGIN TIME_SECONDS"])
        not_ready_time == r["NOT READY TIME_SECONDS"]
    IN  [r EXCEPT !["LOGIN TIME_SECONDS"] = login]
        @@ [c \in {"Full Name", "Total Active Time", "Occupancy %", "Utilization %"} |->
              CASE c = "Full Name" ->
                     Str(fillna_empty(r["AGENT FIRST NAME"]).s \o <<" ">>
                         \o fillna_empty(r["AGENT LAST NAME"]).s)
                [] c = "Total Active Time" -> active
                [] c = "Occupancy %" -> clip(FMul(FDiv(active, login), 100), 0, 100)
                [] c = "Utilization %" ->
                     clip(FMul(FDiv(active, replace_0_1(login - not_ready_time)), 100), 0, 100)]

\* columns process_data reads by name; a missing one raises KeyError
ProcessDataReads ==
    {"AGENT FIRST NAME", "AGENT LAST NAME", "ON CALL TIME", "ON ACW TIME",
     "LOGIN TIME", "NOT READY TIME"}

DerivedColumns(cols) ==
    cols \cup {SecondsName(col) : col \in TimeColumnsIn(cols)}
         \cup {"Full Name", "Total Active Time", "Occupancy %", "Utilization %"}

\* process_data(df): [exc, frame, writes]; the input frame is copied, so the
\* result is a new frame and df stays as it was
process_data(d) ==
    LET writes == SumSeq([i \in 1..Len(d.rows) |-> RowWrites(d.rows[i], d.columns)])
    IN  IF ~(ProcessDataReads \subseteq d.columns)
        THEN [exc |-> "KeyError", frame |-> NoFrame, writes |-> writes]
        ELSE IF \E i \in 1..Len(d.rows) :
                    d.rows[i]["AGENT FIRST NAME"].t = "num" \/ d.rows[i]["AGENT LAST NAME"].t = "num"
        THEN [exc |-> "TypeError", frame |-> NoFrame, writes |-> writes]
        ELSE [exc |-> "none",
              frame |-> [columns |-> DerivedColumns(d.columns),
                         rows |-> [i \in 1..Len(d.rows) |->
                                     DeriveRow(AddSeconds(d.rows[i], d.columns))]],
              writes |-> writes]

-----------------------------------------------------------------------------
(* Formatting *)

DigitChar(n) ==
    CASE n = 0 -> "0" [] n = 1 -> "1" [] n = 2 -> "2" [] n = 3 -> "3" [] n = 4 -> "4"
      [] n = 5 -> "5" [] n = 6 -> "6" [] n = 7 -> "7" [] n = 8 -> "8" [] n = 9 -> "9"

\* str(n) for n >= 0
RECURSIVE PyStr(_)
PyStr(n) == IF n < 10 THEN <<DigitChar(n)>> ELSE PyStr(n \div 10) \o <<DigitChar(n % 10)>>

\* f"{n:02d}": at least two characters, the sign counted
Format02d(n) ==
    IF n < 0 THEN (IF n > 0 - 10 THEN <<"-", DigitChar(0 - n)>> ELSE <<"-">> \o PyStr(0 - n))
    ELSE IF n < 10 THEN <<"0", DigitChar(n)>>
    ELSE PyStr(n)

\* a Python float that is not NaN, beside the cells Str, Num, NaN and None
Flt(f) == [t |-> "float", s |-> <<>>, n |-> 0, f |-> f]

\* int(seconds) of lines 63-64 for an int or a finite float
IntOfSeconds(x) == IF x.t = "float" THEN PyIntOfFloat(x.f).v ELSE x.n

\* lines 63-65 with the minutes taken of all the seconds
format_time_MinutesOfAll(x) ==
    IF x.t \notin {"num", "float"} THEN <<"0", "0", ":", "0", "0">>
    ELSE Format02d(IntOfSeconds(x) \div 3600) \o <<":">> \o Format02d(IntOfSeconds(x) \div 60)

\* format_time(seconds): "HH:MM" of an int or a float, "00:00" of anything
\* else (a str, None, NaN)
format_time(x) ==
    IF x.t \notin {"num", "float"} THEN <<"0", "0", ":", "0", "0">>
    ELSE Format02d(IntOfSeconds(x) \div 3600) \o <<":">>
         \o Format02d((IntOfSeconds(x) % 3600) \div 60)

\* lines 63-64: int() of an infinite float raises OverflowError
format_time_raises(x) == x.t = "float" /\ ~PyIntOfFloat(x.f).ok

\* hours of the largest duration handed to format_time
MaxHours == 120

\* arguments of format_time: ints and floats around the minute, hour and
\* 100-hour marks, negative ones, infinities, and the non-numeric values
FormatSeconds ==
    {h * 3600 + m * 60 + s : h \in {0, 1, 23, 99, 100, MaxHours}, m \in {0, 1, 59}, s \in {0, 1, 59}}

FormatInputs ==
    {Num(n) : n \in FormatSeconds \cup {0 - 1, 0 - 61, 0 - 3600}}
      \cup {Flt(Mixed(n, r, 4)) : n \in {0, 59, 3599, 3661, 359999, 360000, 0 - 1, 0 - 3661},
                                  r \in {0, 1, 3}}
      \cup {Flt(FInf), Flt(FNegInf), NaN, None, Str(<<>>), Str(<<"6", "0">>),
            Str(<<"0", "1", ":", "0", "1">>)}

InitFormat ==
    /\ seconds \in FormatInputs
    /\ fmt_ret = NotFormatted
    /\ time_str = None
    /\ occ_ret = NotCalled
    /\ nr_ret = NotCalled
    /\ page = "none"
    /\ uploaded_file = NoFile
    /\ df = NoFrame
    /\ processed_df = NoFrame
    /\ agent_total = <<>>
    /\ pc = "format"
    /\ out = <<>>

CallFormatTime ==
    /\ pc = "format"
    /\ fmt_ret = NotFormatted
    /\ fmt_ret' = IF format_time_raises(seconds) THEN [val |-> <<>>, raised |-> "OverflowError"]
                  ELSE [val |-> format_time(seconds), raised |-> "none"]
    /\ UNCHANGED <<seconds, time_str, occ_ret, nr_ret, page, uploaded_file, df, processed_df,
                   agent_total, pc, out>>

SpecFormat == InitFormat /\ [][CallFormatTime]_vars

\* the last n decimal digits of u, zero-padded
RECURSIVE FractionDigits(_, _)
FractionDigits(u, n) ==
    IF n = 0 THEN <<>> ELSE FractionDigits(u \div 10, n - 1) \o <<DigitChar(u % 10)>>

RECURSIVE PowerOfTen(_)
PowerOfTen(n) == IF n = 0 THEN 1 ELSE 10 * PowerOfTen(n - 1)

\* f"{x:.<digits>f}" of a float: the nearest multiple of 10^-digits, a tie
\* going to the even one
FormatFixed(x, digits) ==
    IF x.k = "nan" THEN <<"n", "a", "n">>
    ELSE IF x.k = "inf" THEN <<"i", "n", "f">>
    ELSE IF x.k = "-inf" THEN <<"-", "i", "n", "f">>
    ELSE LET neg == x.w < 0
             scale == PowerOfTen(digits)
             aw == IF ~neg THEN x.w ELSE IF x.r = 0 THEN 0 - x.w ELSE 0 - x.w - 1
             ar == IF ~neg \/ x.r = 0 THEN x.r ELSE x.d - x.r
             q == aw * scale + ((ar * scale) \div x.d)
             rem == (ar * scale) % x.d
             units == IF 2 * rem > x.d \/ (2 * rem = x.d /\ q % 2 = 1) THEN q + 1 ELSE q
         IN  (IF neg THEN <<"-">> ELSE <<>>)
             \o PyStr(units \div scale)
             \o (IF digits = 0 THEN <<>> ELSE <<".">> \o FractionDigits(units % scale, digits))

\* f"{x:.1f}"
FormatFixed1(x) == FormatFixed(x, 1)

\* format_percentage(value)
format_percentage(x) ==
    IF x.k = "nan" THEN <<"0", ".", "0", "%">> ELSE FormatFixed1(x) \o <<"%">>

-----------------------------------------------------------------------------
(* pd.to_datetime of a DATE cell written YYYY/MM/DD or YYYY/MM/DD HH:MM *)

NaT == [ok |-> TRUE, nat |-> TRUE, day |-> 0, hour |-> 0]

DateError == [ok |-> FALSE, nat |-> FALSE, day |-> 0, hour |-> 0]

PlainNumber(s, len) == Len(s) = len /\ \A i \in 1..len : s[i] \in Digits

to_datetime(x) ==
    IF isna(x) THEN NaT
    ELSE IF x.t = "num" THEN [ok |-> TRUE, nat |-> FALSE, day |-> 19700101, hour |-> 0]
    ELSE LET halves == PySplit(x.s, " ")
             ymd == PySplit(halves[1], "/")
             hm == IF Len(halves) = 2 THEN PySplit(halves[2], ":") ELSE <<>>
             dateOk == /\ Len(ymd) = 3
                       /\ PlainNumber(ymd[1], 4) /\ PlainNumber(ymd[2], 2) /\ PlainNumber(ymd[3], 2)
                       /\ PyInt(ymd[2]).v \in 1..12 /\ PyInt(ymd[3]).v \in 1..31
             timeOk == \/ Len(halves) = 1
                       \/ /\ Len(halves) = 2 /\ Len(hm) = 2
                          /\ PlainNumber(hm[1], 2) /\ PlainNumber(hm[2], 2)
                          /\ PyInt(hm[1]).v \in 0..23 /\ PyInt(hm[2]).v \in 0..59
         IN  IF dateOk /\ timeOk
             THEN [ok |-> TRUE, nat |-> FALSE,
                   day |-> PyInt(ymd[1]).v * 10000 + PyInt(ymd[2]).v * 100 + PyInt(ymd[3]).v,
                   hour |-> IF Len(halves) = 2 THEN PyInt(hm[1]).v ELSE 0]
             ELSE DateError

-----------------------------------------------------------------------------
(* Sorting and grouping *)

\* the indices of keys (finite floats) in ascending key order, equal keys in
\* their original order; desc gives descending order with the same tie rule:
\* element i is placed before the first element it must precede, scanning from
\* the end, so that equal keys keep their original order
RECURSIVE InsertFromEnd(_, _, _, _)
InsertFromEnd(sorted, i, keys, desc) ==
    IF sorted = <<>> THEN <<i>>
    ELSE LET last == sorted[Len(sorted)]
         IN  IF (IF desc THEN FLess(keys[last], keys[i]) ELSE FLess(keys[i], keys[last]))
             THEN Append(InsertFromEnd(SubSeq(sorted, 1, Len(sorted) - 1), i, keys, desc), last)
             ELSE Append(sorted, i)

RECURSIVE StableOrderUpTo(_, _, _)
StableOrderUpTo(n, keys, desc) ==
    IF n = 0 THEN <<>> ELSE InsertFromEnd(StableOrderUpTo(n - 1, keys, desc), n, keys, desc)

StableOrder(keys, desc) == StableOrderUpTo(Len(keys), keys, desc)

\* i may be put after the first q members of the sorted index sequence s
FitsAt(s, q, i, keys, desc) ==
    /\ \A a \in 1..q :
          ~(IF desc THEN FLess(keys[s[a]], keys[i]) ELSE FLess(keys[i], keys[s[a]]))
    /\ \A a \in (q + 1)..Len(s) :
          ~(IF desc THEN FLess(keys[i], keys[s[a]]) ELSE FLess(keys[s[a]], keys[i]))

\* the index orders Series.sort_values(ascending=...) can give for keys (finite
\* floats): its default kind='quicksort' is not a stable sort, so records of
\* equal key come in whatever order the installed numpy leaves them in
RECURSIVE SortOrdersUpTo(_, _, _)
SortOrdersUpTo(n, keys, desc) ==
    IF n = 0 THEN {<<>>}
    ELSE UNION {{SubSeq(s, 1, q) \o <<n>> \o SubSeq(s, q + 1, Len(s)) :
                    q \in {q \in 0..Len(s) : FitsAt(s, q, n, keys, desc)}} :
                 s \in SortOrdersUpTo(n - 1, keys, desc)}

SortOrders(keys, desc) == SortOrdersUpTo(Len(keys), keys, desc)

\* a finite set of integers as the ascending sequence of its members
RECURSIVE Ascending(_)
Ascending(S) ==
    IF S = {} THEN <<>>
    ELSE LET m == CHOOSE x \in S : \A y \in S : x <= y
         IN  <<m>> \o Ascending(S \ {m})

\* the members of s whose mask entry is TRUE, in order
RECURSIVE SelectMask(_, _)
SelectMask(s, mask) ==
    IF s = <<>> THEN <<>>
    ELSE (IF mask[1] THEN <<s[1]>> ELSE <<>>) \o SelectMask(Tail(s), Tail(mask))

-----------------------------------------------------------------------------
(* What a pass renders: one entry per st.* call that shows something *)

Emit(kind, id, data) == [kind |-> kind, id |-> id, data |-> data]

\* st.metric, st.plotly_chart, st.dataframe
ResultKinds == {"metric", "chart", "table"}

-----------------------------------------------------------------------------
(* Occupancy page: show_metrics and the four tabs of create_visualizations *)

\* show_metrics(df): [exc, entries]; int(NaN) raises ValueError after the
\* first metric when the frame has no rows
show_metrics(d) ==
    LET total_agents == Len(d.rows)
        avg_login_time == IntMean(Column(d, "LOGIN TIME_SECONDS"))
        avg_occupancy == FMean(Column(d, "Occupancy %"))
        avg_utilization == FMean(Column(d, "Utilization %"))
        total_calls_time == SumSeq(Column(d, "ON CALL TIME_SECONDS"))
        total_login_time == SumSeq(Column(d, "LOGIN TIME_SECONDS"))
        first == <<Emit("metric", "Total Agents", total_agents)>>
    IN  IF ~PyIntOfFloat(avg_login_time).ok
        THEN [exc |-> "ValueError", entries |-> first]
        ELSE [exc |-> "none",
              entries |-> first \o
                <<Emit("metric", "Avg Login Time", format_time(Num(PyIntOfFloat(avg_login_time).v))),
                  Emit("metric", "Average Occupancy", format_percentage(avg_occupancy)),
                  Emit("metric", "Average Utilization", format_percentage(avg_utilization)),
                  Emit("metric", "Total Call Hours", format_time(Num(total_calls_time))),
                  Emit("metric", "Total Login Hours", format_time(Num(total_login_time)))>>]

\* lines 144-149: the four category totals of the distribution chart
time_metrics(d) ==
    [c \in {"Not Ready", "Wait", "On Call", "ACW"} |->
       CASE c = "Not Ready" -> SumSeq(Column(d, "NOT READY TIME_SECONDS"))
         [] c = "Wait" -> SumSeq(Column(d, "WAIT TIME_SECONDS"))
         [] c = "On Call" -> SumSeq(Column(d, "ON CALL TIME_SECONDS"))
         [] c = "ACW" -> SumSeq(Column(d, "ON ACW TIME_SECONDS"))]

TopN == 10

\* DataFrame.nlargest(n, column) on a float column, as the set of frames it can
\* return: the first n rows in descending order of the column, rows whose
\* value is missing after all others.  With more than n rows the selection is
\* a mergesort of the candidates (equal values in their original order); with
\* n rows or fewer it is sort_values(ascending=False).head(n)
nlargest(d, n, column) ==
    LET keys == Column(d, column)
        index == [i \in 1..Len(keys) |-> i]
        present == SelectMask(index, [i \in 1..Len(keys) |-> keys[i].k # "nan"])
        missing == SelectMask(index, [i \in 1..Len(keys) |-> keys[i].k = "nan"])
        presentKeys == [j \in 1..Len(present) |-> keys[present[j]]]
        orders == IF n >= Len(keys) THEN SortOrders(presentKeys, TRUE)
                  ELSE {StableOrder(presentKeys, TRUE)}
    IN  {LET ranked == [j \in 1..Len(present) |-> present[order[j]]] \o missing
         IN  [i \in 1..(IF Len(ranked) < n THEN Len(ranked) ELSE n) |-> d.rows[ranked[i]]] :
           order \in orders}

\* tab1 (lines 139-189)
OccupancyTab1(d, top_agents) ==
    LET tm == time_metrics(d)
    IN  <<IF \A c \in DOMAIN tm : tm[c] = 0
          THEN Emit("warning", "No time data available for visualization", 0)
          ELSE Emit("chart", "Overall Time Distribution", tm),
          IF Len(top_agents) > 0
          THEN Emit("chart", "Top 10 Agents by Occupancy",
                    [i \in 1..Len(top_agents) |->
                       <<top_agents[i]["Full Name"].s, top_agents[i]["Occupancy %"]>>])
          ELSE Emit("warning", "No agent data available for visualization", 0)>>

\* lines 197-198: processed_df['Total Time']
WithTotalTime(d) ==
    [columns |-> d.columns \cup {"Total Time"},
     rows |-> [i \in 1..Len(d.rows) |->
                 ("Total Time" :> (d.rows[i]["NOT READY TIME_SECONDS"] + d.rows[i]["WAIT TIME_SECONDS"]
                                   + d.rows[i]["ON CALL TIME_SECONDS"] + d.rows[i]["ON ACW TIME_SECONDS"]))
                 @@ d.rows[i]]]

\* lines 201-212: the options of the selectbox "Sort Agents By:" and the column
\* each one stands for
sort_by_options == {"Total Time", "Occupancy %", "On Call Time", "Not Ready Time"}

sort_column(sort_by) ==
    CASE sort_by = "Total Time" -> "Total Time"
      [] sort_by = "Occupancy %" -> "Occupancy %"
      [] sort_by = "On Call Time" -> "ON CALL TIME_SECONDS"
      [] sort_by = "Not Ready Time" -> "NOT READY TIME_SECONDS"

\* a sort selectbox as rendered: what each option sorts by and in which
\* direction, and the option chosen; line 214 sorts ascending whatever is chosen
SortOption(label, column, ascending) ==
    [label |-> label, column |-> column, ascending |-> ascending]

Occupancy_sort_selectbox(sort_by) ==
    [options |-> {SortOption(o, sort_column(o), TRUE) : o \in sort_by_options},
     value |-> SortOption(sort_by, sort_column(sort_by), TRUE)]

\* the values of a column of the processed frame as floats
SortKeys(d, column) ==
    [i \in 1..Len(d.rows) |->
       IF column = "Occupancy %" THEN d.rows[i][column] ELSE Fin(d.rows[i][column])]

\* tab2 (lines 191-255) on the frame that has its 'Total Time': the selectbox,
\* then one stacked bar per agent, drawn from the rows of df_sorted in the
\* order the sort gave
OccupancyTab2(d, sort_by, order) ==
    <<Emit("selectbox", "Sort Agents By:", Occupancy_sort_selectbox(sort_by)),
      IF Len(order) > 0
      THEN Emit("chart", "Time Distribution by Agent", [i \in 1..Len(order) |-> d.rows[order[i]]])
      ELSE Emit("warning", "No agent data available for visualization", 0)>>

\* line 262: the hour of each record's DATE (NaN for a missing date)
HourOf(x) == LET dt == to_datetime(x) IN IF dt.nat THEN NaN ELSE Num(dt.hour)

WithHour(d) ==
    [columns |-> d.columns \cup {"Hour"},
     rows |-> [i \in 1..Len(d.rows) |-> ("Hour" :> HourOf(d.rows[i]["DATE"])) @@ d.rows[i]]]

\* the group keys of DataFrame.groupby(column) on a numeric key column: the
\* distinct values, a missing key (NaN) forming no group
GroupKeys(keys) == {keys[i].n : i \in {j \in 1..Len(keys) : keys[j].t = "num"}}

\* lines 265-268: per-hour sum of ON CALL seconds and mean of Occupancy %,
\* one row per hour in ascending order
hourly_metrics(d) ==
    LET hours == Ascending(GroupKeys(Column(d, "Hour")))
    IN  [g \in 1..Len(hours) |->
           LET member == [i \in 1..Len(d.rows) |-> d.rows[i]["Hour"] = Num(hours[g])]
           IN  [Hour |-> hours[g],
                on_call |-> SumSeq(SelectMask(Column(d, "ON CALL TIME_SECONDS"), member)),
                occupancy |-> FMean(SelectMask(Column(d, "Occupancy %"), member))]]

\* tab3 (lines 257-309): [exc, entries]
OccupancyTab3(d) ==
    IF \E i \in 1..Len(d.rows) : ~to_datetime(d.rows[i]["DATE"]).ok
    THEN [exc |-> "ValueError", entries |-> <<>>]
    ELSE LET hm == hourly_metrics(WithHour(d))
         IN  [exc |-> "none",
              entries |-> <<IF Len(hm) > 0
                            THEN Emit("chart", "Hourly Performance Trends", hm)
                            ELSE Emit("warning", "No hourly data available for visualization", 0)>>]

display_columns ==
    <<"Full Name", "LOGIN TIME", "NOT READY TIME", "WAIT TIME",
      "ON CALL TIME", "ON ACW TIME", "Occupancy %", "Utilization %">>

\* lines 316-323: the display projection with both percentages as strings
display_df(d) ==
    [i \in 1..Len(d.rows) |->
       [j \in 1..Len(display_columns) |->
          IF display_columns[j] \in {"Occupancy %", "Utilization %"}
          THEN Str(FormatFixed1(d.rows[i][display_columns[j]]) \o <<"%">>)
          ELSE d.rows[i][display_columns[j]]]]

\* tab4 (lines 311-340): the table and the download of the same projection
OccupancyTab4(d) ==
    <<Emit("table", "Detailed Data View", display_df(d)),
      Emit("download", "agent_occupancy_data.csv", display_df(d))>>

-----------------------------------------------------------------------------
(* Occupancy page: the script run *)

Occupancy_required_columns ==
    <<"AGENT", "AGENT FIRST NAME", "AGENT LAST NAME", "DATE",
      "LOGIN TIME", "NOT READY TIME", "WAIT TIME", "ON CALL TIME", "ON ACW TIME">>

\* variant of the check that looks at the duration columns only
missing_columns_DurationsOnly(required, d) ==
    SelectMask(required, [i \in 1..Len(required) |->
                            required[i] \notin d.columns /\ i >= 5])

\* [col for col in required_columns if col not in df.columns]
missing_columns(required, d) ==
    SelectMask(required, [i \in 1..Len(required) |-> required[i] \notin d.columns])

\* lines 344-366: the upload handler up to the call of create_visualizations
OccupancyUploadHandler ==
    /\ page = "occupancy" /\ pc = "start"
    /\ UNCHANGED <<seconds, fmt_ret, time_str, occ_ret, nr_ret, page, uploaded_file, processed_df, agent_total>>
    /\ IF ~uploaded_file.present
       THEN /\ out' = <<Emit("info", "Please upload a CSV file to begin the analysis.", 0)>>
            /\ pc' = "done"
            /\ UNCHANGED df
       ELSE IF ~uploaded_file.readable
       THEN /\ out' = <<Emit("error", "Error reading the file", 0),
                        Emit("error", "Please make sure your CSV file is in the correct format", 0)>>
            /\ pc' = "done"
            /\ UNCHANGED df
       ELSE /\ df' = read_csv(uploaded_file)
            /\ LET missing == missing_columns(Occupancy_required_columns, df')
               IN  IF missing # <<>>
                   THEN /\ out' = <<Emit("error", "Missing columns", missing)>>
                        /\ pc' = "done"
                   ELSE /\ out' = <<>>
                        /\ pc' = "process_data"

\* create_visualizations, lines 130-132: process_data(df), its st.write
\* messages and its error
OccupancyProcessData ==
    /\ page = "occupancy" /\ pc = "process_data"
    /\ UNCHANGED <<seconds, fmt_ret, time_str, occ_ret, nr_ret, page, uploaded_file, df, agent_total>>
    /\ LET r == process_data(df)
           writes == [i \in 1..r.writes |-> Emit("write", "Error converting time", 0)]
       IN  IF r.exc # "none"
           THEN /\ out' = out \o writes \o <<Emit("error", "Error processing data", r.exc)>>
                /\ processed_df' = NoFrame
                /\ pc' = "done"
           ELSE /\ out' = out \o writes
                /\ processed_df' = r.frame
                /\ pc' = "show_metrics"

\* create_visualizations, line 134
OccupancyShowMetrics ==
    /\ page = "occupancy" /\ pc = "show_metrics"
    /\ UNCHANGED <<seconds, fmt_ret, time_str, occ_ret, nr_ret, page, uploaded_file, df, processed_df, agent_total>>
    /\ LET r == show_metrics(processed_df)
       IN  IF r.exc # "none"
           THEN /\ out' = out \o r.entries \o <<Emit("error", "Error creating visualizations", r.exc)>>
                /\ pc' = "done"
           ELSE /\ out' = out \o r.entries
                /\ pc' = "tab1"

OccupancyTimeDistribution ==
    /\ page = "occupancy" /\ pc = "tab1"
    /\ UNCHANGED <<seconds, fmt_ret, time_str, occ_ret, nr_ret, page, uploaded_file, df, processed_df, agent_total>>
    /\ \E top_agents \in nlargest(processed_df, TopN, "Occupancy %") :
          out' = out \o OccupancyTab1(processed_df, top_agents)
    /\ pc' = "tab2"

OccupancyAgentPerformance ==
    /\ page = "occupancy" /\ pc = "tab2"
    /\ UNCHANGED <<seconds, fmt_ret, time_str, occ_ret, nr_ret, page, uploaded_file, df, agent_total>>
    /\ processed_df' = WithTotalTime(processed_df)
    /\ \E sort_by \in sort_by_options :
          \E order \in SortOrders(SortKeys(processed_df', sort_column(sort_by)), FALSE) :
             out' = out \o OccupancyTab2(processed_df', sort_by, order)
    /\ pc' = "tab3"

OccupancyHourlyTrends ==
    /\ page = "occupancy" /\ pc = "tab3"
    /\ UNCHANGED <<seconds, fmt_ret, time_str, occ_ret, nr_ret, page, uploaded_file, df, agent_total>>
    /\ LET r == OccupancyTab3(processed_df)
       IN  IF r.exc # "none"
           THEN /\ out' = out \o <<Emit("error", "Error creating hourly trends visualization", r.exc)>>
                /\ UNCHANGED processed_df
           ELSE /\ out' = out \o r.entries
                /\ processed_df' = WithHour(processed_df)
    /\ pc' = "tab4"

OccupancyDetailedData ==
    /\ page = "occupancy" /\ pc = "tab4"
    /\ UNCHANGED <<seconds, fmt_ret, time_str, occ_ret, nr_ret, page, uploaded_file, df, processed_df, agent_total>>
    /\ out' = out \o OccupancyTab4(processed_df)
    /\ pc' = "done"

-----------------------------------------------------------------------------
(* Python str ordering (by code point) for sorted() and for group keys *)

CodePointOrder ==
    <<" ", "(", ")", "+", "-", ".", "/",
      "0", "1", "2", "3", "4", "5", "6", "7", "8", "9", ":",
      "A", "B", "C", "D", "E", "F", "G", "H", "I", "J", "K", "L", "M",
      "N", "O", "P", "Q", "R", "S", "T", "U", "V", "W", "X", "Y", "Z", "_",
      "a", "b", "c", "d", "e", "f", "g", "h", "i", "j", "k", "l", "m",
      "n", "o", "p", "q", "r", "s", "t", "u", "v", "w", "x", "y", "z">>

CodePoint(c) == CHOOSE i \in 1..Len(CodePointOrder) : CodePointOrder[i] = c

RECURSIVE StrLess(_, _)
StrLess(a, b) ==
    IF b = <<>> THEN FALSE
    ELSE IF a = <<>> THEN TRUE
    ELSE IF a[1] # b[1] THEN CodePoint(a[1]) < CodePoint(b[1])
    ELSE StrLess(Tail(a), Tail(b))

\* a finite set of str as the ascending sequence of its members
RECURSIVE AscendingStr(_)
AscendingStr(S) ==
    IF S = {} THEN <<>>
    ELSE LET m == CHOOSE x \in S : \A y \in S \ {x} : StrLess(x, y)
         IN  <<m>> \o AscendingStr(S \ {m})

\* Series.sum() of a numeric column: missing values are skipped
ColumnSum(d, c) ==
    SumSeq([i \in 1..Len(d.rows) |-> IF d.rows[i][c].t = "num" THEN d.rows[i][c].n ELSE 0])

\* the group keys of DataFrame.groupby(column) on a str key column: the
\* distinct values, a missing key (NaN) forming no group
StrGroupKeys(keys) == {keys[i].s : i \in {j \in 1..Len(keys) : keys[j].t = "str"}}

\* df.drop_duplicates().groupby(key)[column].sum(): a record equal to an
\* earlier one is left out of its group's sum
GroupSum_DropDuplicates(d, key, values) ==
    LET groups == AscendingStr(StrGroupKeys(Column(d, key)))
    IN  [g \in 1..Len(groups) |->
           [key |-> groups[g],
            sum |-> SumSeq([i \in 1..Len(d.rows) |->
                              IF d.rows[i][key] = Str(groups[g])
                                 /\ \A j \in 1..(i - 1) : d.rows[j] # d.rows[i]
                              THEN values[i] ELSE 0])]]

\* df.groupby(key)[column].sum() for the column's values (one per record):
\* one [key, sum] per group, in ascending key order
GroupSum(d, key, values) ==
    LET groups == AscendingStr(StrGroupKeys(Column(d, key)))
    IN  [g \in 1..Len(groups) |->
           [key |-> groups[g],
            sum |-> SumSeq([i \in 1..Len(d.rows) |->
                              IF d.rows[i][key] = Str(groups[g]) THEN values[i] ELSE 0])]]

\* Series.sort_values(ascending=...) of group sums, as the set of its outcomes
SortedBySum(gs, desc) ==
    {[g \in 1..Len(gs) |-> gs[order[g]]] :
        order \in SortOrders([g \in 1..Len(gs) |-> Fin(gs[g].sum)], desc)}

-----------------------------------------------------------------------------
(* Exceptions page *)

Exceptions_required_columns == <<"AGENT GROUP", "AGENT", "CALLS count">>

exception_cols ==
    <<"LONG CALLS count", "SHORT CALLS count", "AGENT DISCONNECTS FIRST count",
      "DISCONNECTED FROM HOLD count", "LONG HOLDS count">>

Exceptions_table_columns ==
    <<"AGENT GROUP", "AGENT", "CALLS count", "LONG CALLS count",
      "AGENT DISCONNECTS FIRST count", "DISCONNECTED FROM HOLD count", "LONG HOLDS count">>

SeqToSet(s) == {s[i] : i \in 1..Len(s)}

\* how many options of a multiselect the caller has selected, at most
MaxSelected == 1

\* what st.multiselect can return over the given options (default=[])
Selections(options) == {S \in SUBSET options : Cardinality(S) <= MaxSelected}

\* all(col in df.columns for col in required_columns)
columns_present(required, d) == SeqToSet(required) \subseteq d.columns

CallsCount(r) == IF r["CALLS count"].t = "num" THEN r["CALLS count"].n ELSE 0

\* line 65: calls per agent group, smallest total first (the outcomes)
group_calls(d) ==
    SortedBySum(GroupSum(d, "AGENT GROUP", [i \in 1..Len(d.rows) |-> CallsCount(d.rows[i])]), FALSE)

\* lines 38-54: [exc, entries]; the four totals are computed before any metric
ExceptionsMetrics(d) ==
    IF ~({"AGENT", "CALLS count", "LONG CALLS count", "AGENT DISCONNECTS FIRST count"} \subseteq d.columns)
    THEN [exc |-> "KeyError", entries |-> <<>>]
    ELSE [exc |-> "none",
          entries |->
            <<Emit("metric", "Total Agents", Cardinality(SeqToSet(Column(d, "AGENT")))),
              Emit("metric", "Total Calls", ColumnSum(d, "CALLS count")),
              Emit("metric", "Long Calls", ColumnSum(d, "LONG CALLS count")),
              Emit("metric", "Agent Disconnects", ColumnSum(d, "AGENT DISCONNECTS FIRST count"))>>]

\* the selectbox "Select Exception Type" at its default (the first option)
exception_type == "LONG CALLS count"

\* the value of a count cell as a float (NaN for a missing value)
CountKey(x) == IF x.t = "num" THEN Fin(x.n) ELSE FNaN

\* a column of numeric dtype: it has records and none of its values is a str
\* (a frame without records has columns of dtype object)
NumericDtype(d, c) ==
    Len(d.rows) > 0 /\ \A i \in 1..Len(d.rows) : d.rows[i][c].t \in {"num", "nan"}

\* line 103: the outcomes of df.nlargest(10, exception_type), none when the
\* statement is not reached or raises
Exceptions_top_agents(d) ==
    IF /\ SeqToSet(exception_cols) \subseteq d.columns
       /\ NumericDtype(d, exception_type)
    THEN nlargest([columns |-> d.columns,
                   rows |-> [i \in 1..Len(d.rows) |->
                               ("key" :> CountKey(d.rows[i][exception_type])) @@ d.rows[i]]],
                  TopN, "key")
    ELSE {<<>>}

\* lines 59-114 for the sorted group totals and the top agents the two
\* selections gave: [exc, entries]; the group chart is drawn before the
\* exception columns are read, and nlargest raises TypeError on a column of
\* dtype object after the first two charts
ExceptionsCharts(d, sorted_calls, top_agents) ==
    LET first == <<Emit("chart", "Total Calls by Agent Group", sorted_calls)>>
    IN  IF ~(SeqToSet(exception_cols) \subseteq d.columns)
        THEN [exc |-> "KeyError", entries |-> first]
        ELSE LET second == <<Emit("chart", "Exception Types Distribution",
                                  [j \in 1..Len(exception_cols) |->
                                     ColumnSum(d, exception_cols[j])])>>
             IN  IF ~NumericDtype(d, exception_type) \/ NumericDtype(d, "AGENT")
                 THEN [exc |-> "TypeError", entries |-> first \o second]
                 ELSE [exc |-> "none",
                       entries |-> first \o second \o
                         <<Emit("chart", "Top 10 Agents by Exception Type",
                                [i \in 1..Len(top_agents) |->
                                   <<top_agents[i]["AGENT"], top_agents[i]["AGENT GROUP"],
                                     top_agents[i][exception_type]>>])>>]

\* lines 116-149: [exc, entries]; sorted() of the group names raises TypeError
\* when a missing group (NaN) stands beside a str.  The table shows seven
\* columns of display_df, the download is display_df.to_csv with every column;
\* display_df is df, or its records of the selected groups when any is selected
ExceptionsDetails(d, selected_groups) ==
    LET groups == SeqToSet(Column(d, "AGENT GROUP"))
        display_rows == IF selected_groups = {} THEN d.rows
                        ELSE SelectMask(d.rows, [i \in 1..Len(d.rows) |->
                                                   d.rows[i]["AGENT GROUP"] \in selected_groups])
    IN  IF Cardinality(groups) > 1 /\ \E x \in groups : x.t # "str"
        THEN [exc |-> "TypeError", entries |-> <<>>]
        ELSE [exc |-> "none",
              entries |->
                <<Emit("multiselect", "Filter by Agent Group",
                       [options |-> groups, value |-> selected_groups]),
                  Emit("table", "Detailed Data",
                       [i \in 1..Len(display_rows) |->
                          [j \in 1..Len(Exceptions_table_columns) |->
                             display_rows[i][Exceptions_table_columns[j]]]]),
                  Emit("download", "agent_productivity_filtered.csv", display_rows)>>]

\* lines 152-153
ProcessingErrors(exc) ==
    <<Emit("error", "Error processing the data", exc),
      Emit("error", "Please make sure your CSV file is in the correct format", 0)>>

\* lines 155-169: the upload handler up to the call of create_visualizations
ExceptionsUploadHandler ==
    /\ page = "exceptions" /\ pc = "start"
    /\ UNCHANGED <<seconds, fmt_ret, time_str, occ_ret, nr_ret, page, uploaded_file, processed_df, agent_total>>
    /\ IF ~uploaded_file.present
       THEN /\ out' = <<Emit("info", "Please upload a CSV file to begin the analysis.", 0)>>
            /\ pc' = "done"
            /\ UNCHANGED df
       ELSE IF ~uploaded_file.readable
       THEN /\ out' = <<Emit("error", "Error reading the file", 0)>>
            /\ pc' = "done"
            /\ UNCHANGED df
       ELSE /\ df' = read_csv(uploaded_file)
            /\ IF columns_present(Exceptions_required_columns, df')
               THEN /\ out' = <<>>
                    /\ pc' = "metrics"
               ELSE /\ out' = <<Emit("error", "The CSV file must contain these columns",
                                     Exceptions_required_columns)>>
                    /\ pc' = "done"

\* create_visualizations, lines 36-54
ExceptionsShowMetrics ==
    /\ page = "exceptions" /\ pc = "metrics"
    /\ UNCHANGED <<seconds, fmt_ret, time_str, occ_ret, nr_ret, page, uploaded_file, df, processed_df, agent_total>>
    /\ LET r == ExceptionsMetrics(df)
       IN  IF r.exc # "none"
           THEN out' = out \o r.entries \o ProcessingErrors(r.exc) /\ pc' = "done"
           ELSE out' = out \o r.entries /\ pc' = "charts"

\* create_visualizations, lines 59-114
ExceptionsShowCharts ==
    /\ page = "exceptions" /\ pc = "charts"
    /\ UNCHANGED <<seconds, fmt_ret, time_str, occ_ret, nr_ret, page, uploaded_file, df, processed_df, agent_total>>
    /\ \E sorted_calls \in group_calls(df) :
       \E top_agents \in Exceptions_top_agents(df) :
          LET r == ExceptionsCharts(df, sorted_calls, top_agents)
          IN  IF r.exc # "none"
              THEN out' = out \o r.entries \o ProcessingErrors(r.exc) /\ pc' = "done"
              ELSE out' = out \o r.entries /\ pc' = "details"

\* create_visualizations, lines 116-153
ExceptionsShowDetails ==
    /\ page = "exceptions" /\ pc = "details"
    /\ UNCHANGED <<seconds, fmt_ret, time_str, occ_ret, nr_ret, page, uploaded_file, df, processed_df, agent_total>>
    /\ \E selected_groups \in Selections(SeqToSet(Column(df, "AGENT GROUP"))) :
          LET r == ExceptionsDetails(df, selected_groups)
          IN  IF r.exc # "none"
              THEN out' = out \o r.entries \o ProcessingErrors(r.exc)
              ELSE out' = out \o r.entries
    /\ pc' = "done"

-----------------------------------------------------------------------------
(* Not-ready page *)

NotReady_required_columns == <<"AGENT NAME", "NOT READY TIME", "DATE">>

\* lines 60 and 63 on the frame: 'NOT READY SECONDS' is added to df itself and
\* then 'DATE' is converted in place (a date is kept as its number YYYYMMDD,
\* NaT as the missing value); [exc, frame], the frame being df as the statement
\* that raised left it
NotReadyDerived(d) ==
    LET with_seconds == [columns |-> d.columns \cup {"NOT READY SECONDS"},
                         rows |-> [i \in 1..Len(d.rows) |->
                                ("NOT READY SECONDS" :>
                                    NotReady_time_to_seconds(d.rows[i]["NOT READY TIME"]).val)
                                @@ d.rows[i]]]
    IN  IF \E i \in 1..Len(d.rows) : ~to_datetime(d.rows[i]["DATE"]).ok
        THEN [exc |-> "ValueError", frame |-> with_seconds]
        ELSE [exc |-> "none",
              frame |-> [columns |-> with_seconds.columns,
                         rows |-> [i \in 1..Len(d.rows) |->
                                     [with_seconds.rows[i] EXCEPT !["DATE"] =
                                        LET dt == to_datetime(d.rows[i]["DATE"])
                                        IN  IF dt.nat THEN NaN ELSE Num(dt.day)]]]]

\* line 66: not-ready seconds per agent, largest total first (the outcomes)
agent_total_outcomes(d) ==
    SortedBySum(GroupSum(d, "AGENT NAME", Column(d, "NOT READY SECONDS")), TRUE)

\* the days of the records that have a date
Days(d) == GroupKeys(Column(d, "DATE"))

MinOf(S) == CHOOSE x \in S : \A y \in S : x <= y

MaxOf(S) == CHOOSE x \in S : \A y \in S : y <= x

\* Timestamp.strftime('%m/%d/%y') of a day YYYYMMDD
StrftimeMDY(day) ==
    Format02d((day \div 100) % 100) \o <<"/">> \o Format02d(day % 100)
        \o <<"/">> \o Format02d((day \div 10000) % 100)

\* lines 68-81: [exc, entries]; NaT.strftime raises ValueError after the first
\* three metrics when no record has a date
NotReadyMetrics(d, totals) ==
    LET not_ready_seconds == Column(d, "NOT READY SECONDS")
        first == <<Emit("metric", "Total Agents", Len(totals)),
                   Emit("metric", "Total Not Ready Hours",
                        FormatFixed(FDiv(SumSeq(not_ready_seconds), 3600), 2)),
                   Emit("metric", "Avg Minutes per Agent",
                        FormatFixed(FOver(IntMean(not_ready_seconds), 60), 2))>>
    IN  IF Days(d) = {}
        THEN [exc |-> "ValueError", entries |-> first]
        ELSE [exc |-> "none",
              entries |-> first \o
                <<Emit("metric", "Date Range",
                       StrftimeMDY(MinOf(Days(d))) \o <<" ", "-", " ">>
                           \o StrftimeMDY(MaxOf(Days(d))))>>]

\* line 107: mean not-ready seconds per day, one row per day in ascending order
daily_avg(d) ==
    LET days == Ascending(Days(d))
    IN  [g \in 1..Len(days) |->
           [DATE |-> days[g],
            mean |-> IntMean(SelectMask(Column(d, "NOT READY SECONDS"),
                                        [i \in 1..Len(d.rows) |-> d.rows[i]["DATE"] = Num(days[g])]))]]

\* tab1 (lines 86-138): one figure of the per-agent totals and the daily trend
NotReadyCharts(d, totals) ==
    <<Emit("chart", "Not Ready Time Analysis", <<totals, daily_avg(d)>>)>>

\* line 143: agent_total.head(10)
top_10_agents(totals) ==
    [i \in 1..(IF Len(totals) < TopN THEN Len(totals) ELSE TopN) |-> totals[i]]

\* lines 161-162 with the date range at its default (first to last day): the
\* records that have a date
filtered_df(d) ==
    [columns |-> d.columns,
     rows |-> SelectMask(d.rows, [i \in 1..Len(d.rows) |-> d.rows[i]["DATE"].t = "num"])]

\* lines 165-166: not-ready seconds per (day, agent), ascending by day then
\* agent; records without an agent name form no group
daily_stats(d) ==
    LET f == filtered_df(d)
        days == Ascending(Days(f))
        names == AscendingStr(StrGroupKeys(Column(f, "AGENT NAME")))
        cell(g, a) == [i \in 1..Len(f.rows) |->
                         f.rows[i]["DATE"] = Num(days[g]) /\ f.rows[i]["AGENT NAME"] = Str(names[a])]
        pairs == [k \in 1..(Len(days) * Len(names)) |->
                    <<((k - 1) \div Len(names)) + 1, ((k - 1) % Len(names)) + 1>>]
        groups == SelectMask(pairs, [k \in 1..Len(pairs) |->
                                       \E i \in 1..Len(f.rows) : cell(pairs[k][1], pairs[k][2])[i]])
    IN  [k \in 1..Len(groups) |->
           LET total == SumSeq(SelectMask(Column(f, "NOT READY SECONDS"),
                                          cell(groups[k][1], groups[k][2])))
           IN  [DATE |-> days[groups[k][1]],
                agent |-> names[groups[k][2]],
                seconds |-> total,
                hours |-> FDiv(total, 3600)]]

\* lines 170-174 where pandas accepts a dict of names in SeriesGroupBy.agg:
\* per day the total hours, the hours per agent of the filtered frame, and the
\* number of distinct not-ready values
daily_summary(d) ==
    LET f == filtered_df(d)
        days == Ascending(Days(f))
        agents == Cardinality(SeqToSet(Column(f, "AGENT NAME")))
    IN  [g \in 1..Len(days) |->
           LET x == SelectMask(Column(f, "NOT READY SECONDS"),
                               [i \in 1..Len(f.rows) |-> f.rows[i]["DATE"] = Num(days[g])])
           IN  [DATE |-> days[g],
                total_hours |-> FDiv(SumSeq(x), 3600),
                average_hours |-> FDiv(SumSeq(x), 3600 * agents),
                active_agents |-> Cardinality(SeqToSet(x))]]

\* lines 246-252: the options of the selectbox "Sort by"
sort_options ==
    {SortOption("Date (Ascending)", "DATE", TRUE),
     SortOption("Date (Descending)", "DATE", FALSE),
     SortOption("Hours (Highest First)", "NOT READY HOURS", FALSE),
     SortOption("Hours (Lowest First)", "NOT READY HOURS", TRUE),
     SortOption("Agent Name", "AGENT NAME", TRUE)}

\* the value of a daily_stats row in a column, as a float that orders the
\* rows as the column's values do (an agent name by its rank among names)
StatsKey(row, column, names) ==
    CASE column = "DATE" -> Fin(row.DATE)
      [] column = "NOT READY HOURS" -> row.hours
      [] column = "AGENT NAME" -> Fin(CHOOSE r \in 1..Len(names) : names[r] = row.agent)

\* lines 261-264: sort_values(by=[sort_col, second], ascending=[sort_asc, True])
\* where second is 'AGENT NAME', or 'DATE' when sorting by agent name; rows
\* equal in both keep their order (the sort on several keys is stable)
sorted_daily_stats(stats, option) ==
    LET names == AscendingStr({stats[k].agent : k \in 1..Len(stats)})
        second == IF option.column # "AGENT NAME" THEN "AGENT NAME" ELSE "DATE"
        by_second == StableOrder([k \in 1..Len(stats) |-> StatsKey(stats[k], second, names)], FALSE)
        pass == [k \in 1..Len(stats) |-> stats[by_second[k]]]
        by_first == StableOrder([k \in 1..Len(stats) |->
                                   StatsKey(pass[k], option.column, names)], ~option.ascending)
    IN  [k \in 1..Len(stats) |-> pass[by_first[k]]]

\* lines 241-243: the rows of the selected agents, all rows when none is selected
selected_daily_stats(stats, selected_agents) ==
    IF selected_agents = {} THEN stats
    ELSE SelectMask(stats, [k \in 1..Len(stats) |-> Str(stats[k].agent) \in selected_agents])

\* the largest of a non-empty sequence of finite floats
FMax(s) == s[CHOOSE i \in 1..Len(s) : \A j \in 1..Len(s) : ~FLess(s[i], s[j])]

\* tab2 (lines 140-285): [exc, entries] for the agents selected and the sort
\* option chosen, the date range at its default.
\* nested_renamer tells whether the installed pandas accepts line 170's dict
\* (pandas before 1.0) or raises SpecificationError; sorted() of the agent
\* names raises TypeError when a missing name stands beside a str.  A metric
\* entry holds the metric's value.
NotReadyDetails(d, agent_totals, nested_renamer, selected_agents, sort_by) ==
    LET top == top_10_agents(agent_totals)
        first == <<Emit("table", "Top 10 Agents by Not Ready Time",
                        [i \in 1..Len(top) |-> <<top[i].key, FDiv(top[i].sum, 3600)>>])>>
        summary == daily_summary(d)
        totals == [g \in 1..Len(summary) |-> summary[g].total_hours]
        second == <<Emit("chart", "Daily Not Ready Time Overview", summary),
                    Emit("metric", "Average Daily Hours", FormatFixed(FMean(totals), 2)),
                    Emit("metric", "Peak Day Hours", FormatFixed(FMax(totals), 2)),
                    Emit("metric", "Average Active Agents",
                         FormatFixed(IntMean([g \in 1..Len(summary) |->
                                                summary[g].active_agents]), 0))>>
        names == SeqToSet(Column(filtered_df(d), "AGENT NAME"))
    IN  IF ~nested_renamer
        THEN [exc |-> "SpecificationError", entries |-> first]
        ELSE IF Cardinality(names) > 1 /\ \E x \in names : x.t # "str"
        THEN [exc |-> "TypeError", entries |-> first \o second]
        ELSE [exc |-> "none",
              entries |-> first \o second \o
                LET shown == sorted_daily_stats(selected_daily_stats(daily_stats(d),
                                                                     selected_agents), sort_by)
                IN  <<Emit("multiselect", "Filter by Agents",
                           [options |-> names, value |-> selected_agents]),
                      Emit("selectbox", "Sort by", [options |-> sort_options, value |-> sort_by]),
                      Emit("table", "Detailed Agent Data", shown),
                      Emit("download", "not_ready_time_filtered.csv", shown)>>]

\* lines 291-306: the upload handler up to the call of create_visualizations
NotReadyUploadHandler ==
    /\ page = "not_ready" /\ pc = "start"
    /\ UNCHANGED <<seconds, fmt_ret, time_str, occ_ret, nr_ret, page, uploaded_file, processed_df, agent_total>>
    /\ IF ~uploaded_file.present
       THEN /\ out' = <<Emit("info", "Please upload a CSV file to begin the analysis.", 0)>>
            /\ pc' = "done"
            /\ UNCHANGED df
       ELSE IF ~uploaded_file.readable
       THEN /\ out' = <<Emit("error", "Error reading the file", 0)>>
            /\ pc' = "done"
            /\ UNCHANGED df
       ELSE /\ df' = read_csv(uploaded_file)
            /\ IF columns_present(NotReady_required_columns, df')
               THEN /\ out' = <<>>
                    /\ pc' = "derive"
               ELSE /\ out' = <<Emit("error", "The CSV file must contain these columns",
                                     NotReady_required_columns),
                                Emit("code", "Sample CSV Format", 0)>>
                    /\ pc' = "done"

\* create_visualizations, lines 59-66
NotReadyDerive ==
    /\ page = "not_ready" /\ pc = "derive"
    /\ UNCHANGED <<seconds, fmt_ret, time_str, occ_ret, nr_ret, page, uploaded_file, processed_df>>
    /\ LET r == NotReadyDerived(df)
       IN  /\ df' = r.frame
           /\ IF r.exc # "none"
              THEN /\ UNCHANGED agent_total
                   /\ out' = out \o ProcessingErrors(r.exc)
                   /\ pc' = "done"
              ELSE /\ agent_total' \in agent_total_outcomes(r.frame)
                   /\ out' = out
                   /\ pc' = "metrics"

\* create_visualizations, lines 68-81
NotReadyShowMetrics ==
    /\ page = "not_ready" /\ pc = "metrics"
    /\ UNCHANGED <<seconds, fmt_ret, time_str, occ_ret, nr_ret, page, uploaded_file, df, processed_df, agent_total>>
    /\ LET r == NotReadyMetrics(df, agent_total)
       IN  IF r.exc # "none"
           THEN out' = out \o r.entries \o ProcessingErrors(r.exc) /\ pc' = "done"
           ELSE out' = out \o r.entries /\ pc' = "charts"

\* create_visualizations, lines 86-138
NotReadyShowCharts ==
    /\ page = "not_ready" /\ pc = "charts"
    /\ UNCHANGED <<seconds, fmt_ret, time_str, occ_ret, nr_ret, page, uploaded_file, df, processed_df, agent_total>>
    /\ out' = out \o NotReadyCharts(df, agent_total)
    /\ pc' = "details"

\* create_visualizations, lines 140-289
NotReadyShowDetails ==
    /\ page = "not_ready" /\ pc = "details"
    /\ UNCHANGED <<seconds, fmt_ret, time_str, occ_ret, nr_ret, page, uploaded_file, df, processed_df, agent_total>>
    /\ \E nested_renamer \in BOOLEAN :
          \E selected_agents \in Selections(SeqToSet(Column(filtered_df(df), "AGENT NAME"))) :
             \E sort_by \in sort_options :
                LET r == NotReadyDetails(df, agent_total, nested_renamer, selected_agents, sort_by)
                IN  IF r.exc # "none"
                    THEN out' = out \o r.entries \o ProcessingErrors(r.exc)
                    ELSE out' = out \o r.entries
    /\ pc' = "done"

-----------------------------------------------------------------------------
(* Uploaded files *)

MaxRows == 2

MaxMissing == 2

\* records of the one large batch of each page (more than the ten of a top-10)
BigRows == 12

File(columns, rows) == [present |-> TRUE, readable |-> TRUE, columns |-> columns, rows |-> rows]

\* an upload pd.read_csv cannot parse (an empty file, for one)
UnreadableFile == [present |-> TRUE, readable |-> FALSE, columns |-> {}, rows |-> <<>>]

Batches(rows) == UNION {[1..k -> rows] : k \in 0..MaxRows}

\* a file of the given columns without the columns in gone
Without(columns, gone, rows) ==
    File(columns \ gone, [i \in 1..Len(rows) |-> [c \in columns \ gone |-> rows[i][c]]])

Dropped(columns) == {gone \in SUBSET columns : Cardinality(gone) \in 1..MaxMissing}

Clock(h, m, s) == Format02d(h) \o <<":">> \o Format02d(m) \o <<":">> \o Format02d(s)

Bad == <<"b", "a", "d">>

MinusOneHour == <<"-", "1", ":", "0", "0", ":", "0", "0">>

DateText(day) == <<"2", "0", "2", "4", "/", "1", "2", "/">> \o Format02d(day)

DateTimeText(day, hour) == DateText(day) \o <<" ">> \o Format02d(hour) \o <<":", "0", "0">>

Ann == <<"A", "n", "n">>

Bob == <<"B", "o", "b">>

Lee == <<"L", "e", "e">>

OccupancyColumns ==
    {Occupancy_required_columns[i] : i \in 1..Len(Occupancy_required_columns)} \cup {"RINGING TIME"}

OccupancyRow(first, last, date, login, not_ready, wait, on_call, acw) ==
    [c \in OccupancyColumns |->
       CASE c = "AGENT" -> <<"a", "1">>
         [] c = "AGENT FIRST NAME" -> first
         [] c = "AGENT LAST NAME" -> last
         [] c = "DATE" -> date
         [] c = "LOGIN TIME" -> login
         [] c = "NOT READY TIME" -> not_ready
         [] c = "WAIT TIME" -> wait
         [] c = "RINGING TIME" -> Clock(0, 1, 0)
         [] c = "ON CALL TIME" -> on_call
         [] c = "ON ACW TIME" -> acw]

\* agent A of the spec's scenario: login 02:00:00, not ready 00:20:00,
\* on call 01:00:00, ACW 00:10:00
ScenarioRow ==
    OccupancyRow(Ann, Lee, DateTimeText(31, 9), Clock(2, 0, 0), Clock(0, 20, 0),
                 Clock(0, 30, 0), Clock(1, 0, 0), Clock(0, 10, 0))

\* login and not-ready texts: the scenario, not ready equal to login, nothing
\* recorded, not ready without login
LoginNotReadyTexts ==
    { <<Clock(2, 0, 0), Clock(0, 20, 0)>>, <<Clock(2, 0, 0), Clock(2, 0, 0)>>,
      <<Clock(0, 0, 0), Clock(0, 0, 0)>>, <<Clock(0, 0, 0), Clock(0, 20, 0)>> }

\* on-call and ACW texts: the scenario, nothing recorded, a signed on-call time
OnCallAcwTexts ==
    { <<Clock(1, 0, 0), Clock(0, 10, 0)>>, <<Clock(0, 0, 0), Clock(0, 0, 0)>>,
      <<MinusOneHour, Clock(0, 10, 0)>> }

OccupancyRows ==
    {OccupancyRow(Ann, Lee, DateTimeText(31, 9), ln[1], ln[2], Clock(0, 0, 0), ca[1], ca[2]) :
        ln \in LoginNotReadyTexts, ca \in OnCallAcwTexts}
    \cup {OccupancyRow(Ann, Lee, DateTimeText(31, 9), login, Clock(0, 20, 0), Clock(0, 30, 0),
                       Clock(1, 0, 0), Clock(0, 10, 0)) :
             login \in {<<>>, Bad, Clock(2, 0, 0)}}
    \cup {OccupancyRow(Ann, Lee, date, Clock(2, 0, 0), Clock(0, 20, 0), Clock(0, 30, 0),
                       Clock(1, 0, 0), Clock(0, 10, 0)) :
             date \in {DateTimeText(31, 10), <<>>, Bad}}
    \cup {OccupancyRow(name[1], name[2], DateTimeText(31, 9), Clock(2, 0, 0), Clock(0, 20, 0),
                       Clock(0, 30, 0), Clock(1, 0, 0), Clock(0, 10, 0)) :
             name \in {<<Bob, <<>> >>, <<<<>>, Lee>>, <<<<"7">>, Lee>>}}

\* "A01", "A02", ...
Numbered(letter, i) == <<letter>> \o Format02d(i)

\* the value of record i of the large batch: distinct per record, but for the
\* last two records, which share theirs
Shared(i) == IF i < BigRows THEN i ELSE BigRows - 1

\* "HH:MM:SS" of a number of seconds
ClockOfSeconds(n) == Clock(n \div 3600, (n % 3600) \div 60, n % 60)

\* record i is logged in for 10000 s, not ready for 6000 s and i minutes, and
\* active for 50 + Shared(i) percent of its login (600 s of them after calls)
OccupancyBigBatch ==
    [i \in 1..BigRows |->
       OccupancyRow(Numbered("A", i), Lee, DateTimeText(31, 9), ClockOfSeconds(10000),
                    ClockOfSeconds(6000 + 60 * i), Clock(0, 0, 0),
                    ClockOfSeconds(4400 + 100 * Shared(i)), Clock(0, 10, 0))]

\* the records that are put together in batches of several records: the four
\* login and not-ready texts with the scenario's calls, a signed on-call time,
\* another hour and no date
OccupancySeveralRows ==
    {OccupancyRow(Ann, Lee, DateTimeText(31, 9), ln[1], ln[2], Clock(0, 0, 0),
                  Clock(1, 0, 0), Clock(0, 10, 0)) : ln \in LoginNotReadyTexts}
    \cup {OccupancyRow(Ann, Lee, DateTimeText(31, 9), Clock(2, 0, 0), Clock(0, 20, 0), Clock(0, 0, 0),
                       MinusOneHour, Clock(0, 10, 0))}
    \cup {OccupancyRow(Ann, Lee, date, Clock(2, 0, 0), Clock(0, 20, 0), Clock(0, 30, 0),
                       Clock(1, 0, 0), Clock(0, 10, 0)) : date \in {DateTimeText(31, 10), <<>>}}

\* every record alone, the batches of several records, and the large batch
OccupancyFiles ==
    {File(OccupancyColumns, rows) :
        rows \in {<<r>> : r \in OccupancyRows} \cup Batches(OccupancySeveralRows)
                   \cup {OccupancyBigBatch}}
    \cup {Without(OccupancyColumns, gone, <<ScenarioRow>>) : gone \in Dropped(OccupancyColumns)}
    \cup {UnreadableFile, NoFile}

ExceptionsColumns == SeqToSet(Exceptions_required_columns) \cup SeqToSet(exception_cols)

ExceptionsRow(group, agent, calls, long_calls) ==
    [c \in ExceptionsColumns |->
       CASE c = "AGENT GROUP" -> group
         [] c = "AGENT" -> agent
         [] c = "CALLS count" -> calls
         [] c = "LONG CALLS count" -> long_calls
         [] c = "SHORT CALLS count" -> <<"1">>
         [] c = "AGENT DISCONNECTS FIRST count" -> <<"2">>
         [] c = "DISCONNECTED FROM HOLD count" -> <<"0">>
         [] c = "LONG HOLDS count" -> <<"3">>]

ExceptionsRows ==
    {ExceptionsRow(group, <<"a", "1">>, calls, <<"1">>) :
        group \in {<<"G", "1">>, <<"G", "2">>, <<>>}, calls \in {<<"5">>, <<"7">>, <<>>}}
    \cup {ExceptionsRow(<<"G", "1">>, <<"a", "2">>, <<"5">>, long_calls) :
            long_calls \in {<<"1">>, <<"4">>}}

ExceptionsBigBatch ==
    [i \in 1..BigRows |->
       ExceptionsRow(<<"G", "1">>, Numbered("a", i), <<"5">>, PyStr(Shared(i)))]

ExceptionsFiles ==
    {File(ExceptionsColumns, rows) : rows \in Batches(ExceptionsRows) \cup {ExceptionsBigBatch}}
    \cup {Without(ExceptionsColumns, gone,
                  <<ExceptionsRow(<<"G", "1">>, <<"a", "1">>, <<"5">>, <<"1">>)>>) :
            gone \in Dropped(ExceptionsColumns)}
    \cup {UnreadableFile, NoFile}

NotReadyColumns == SeqToSet(NotReady_required_columns) \cup {"AGENT ID"}

NotReadyRow(name, not_ready, date) ==
    [c \in NotReadyColumns |->
       CASE c = "AGENT NAME" -> name
         [] c = "NOT READY TIME" -> not_ready
         [] c = "DATE" -> date
         [] c = "AGENT ID" -> <<"a", "1">>]

NotReadyRows ==
    {NotReadyRow(name, not_ready, DateText(31)) :
        name \in {Ann, Bob, <<>>}, not_ready \in {Clock(0, 15, 30), Clock(0, 5, 45), Bad}}
    \cup {NotReadyRow(Ann, Clock(0, 15, 30), date) : date \in {DateText(30), <<>>, Bad}}
    \cup {NotReadyRow(Bob, MinusOneHour, DateText(30))}

NotReadyBigBatch ==
    [i \in 1..BigRows |-> NotReadyRow(Numbered("A", i), Clock(0, Shared(i), 0), DateText(31))]

NotReadyFiles ==
    {File(NotReadyColumns, rows) : rows \in Batches(NotReadyRows) \cup {NotReadyBigBatch}}
    \cup {Without(NotReadyColumns, gone, <<NotReadyRow(Ann, Clock(0, 15, 30), DateText(31))>>) :
            gone \in Dropped(NotReadyColumns)}
    \cup {UnreadableFile, NoFile}

Files(p) ==
    CASE p = "occupancy" -> OccupancyFiles
      [] p = "exceptions" -> ExceptionsFiles
      [] p = "not_ready" -> NotReadyFiles

Pages == {"occupancy", "exceptions", "not_ready"}

-----------------------------------------------------------------------------
(* The session: one page, one uploaded file, script runs from top to bottom *)

Init ==
    /\ page \in Pages
    /\ uploaded_file \in Files(page)
    /\ df = NoFrame
    /\ processed_df = NoFrame
    /\ agent_total = <<>>
    /\ pc = "start"
    /\ out = <<>>
    /\ seconds = None
    /\ fmt_ret = NotFormatted
    /\ time_str = None
    /\ occ_ret = NotCalled
    /\ nr_ret = NotCalled

\* Streamlit runs the script again (a widget was touched, the page reloaded):
\* the previous pass's frames and output are discarded
Rerun ==
    /\ pc = "done"
    /\ pc' = "start"
    /\ out' = <<>>
    /\ df' = NoFrame
    /\ processed_df' = NoFrame
    /\ agent_total' = <<>>
    /\ UNCHANGED <<seconds, fmt_ret, time_str, occ_ret, nr_ret, page, uploaded_file>>

Next ==
    \/ OccupancyUploadHandler
    \/ OccupancyProcessData
    \/ OccupancyShowMetrics
    \/ OccupancyTimeDistribution
    \/ OccupancyAgentPerformance
    \/ OccupancyHourlyTrends
    \/ OccupancyDetailedData
    \/ ExceptionsUploadHandler
    \/ ExceptionsShowMetrics
    \/ ExceptionsShowCharts
    \/ ExceptionsShowDetails
    \/ NotReadyUploadHandler
    \/ NotReadyDerive
    \/ NotReadyShowMetrics
    \/ NotReadyShowCharts
    \/ NotReadyShowDetails
    \/ Rerun

Spec == Init /\ [][Next]_vars

-----------------------------------------------------------------------------
(* Duration strings, described by position rather than by parsing *)

ColonsOf(s) == {i \in 1..Len(s) : s[i] = ":"}

\* the three substrings around the two colons of s (s has exactly two colons)
ComponentsOf(s) ==
    LET c1 == CHOOSE i \in ColonsOf(s) : \A j \in ColonsOf(s) : i <= j
        c2 == CHOOSE i \in ColonsOf(s) : \A j \in ColonsOf(s) : j <= i
    IN  <<SubSeq(s, 1, c1 - 1), SubSeq(s, c1 + 1, c2 - 1), SubSeq(s, c2 + 1, Len(s))>>

Unsigned(c) == IF c # <<>> /\ c[1] \in {"+", "-"} THEN Tail(c) ELSE c

\* a base-10 integer: an optional sign and one or more decimal digits
IsBase10Integer(c) ==
    /\ Unsigned(c) # <<>>
    /\ \A i \in 1..Len(Unsigned(c)) : Unsigned(c)[i] \in Digits

RECURSIVE PlaceSum(_, _)
PlaceSum(d, i) ==
    IF i > Len(d) THEN 0
    ELSE DigitVal(d[i]) * PowerOfTen(Len(d) - i) + PlaceSum(d, i + 1)

Base10Value(c) ==
    IF c[1] = "-" THEN 0 - PlaceSum(Unsigned(c), 1) ELSE PlaceSum(Unsigned(c), 1)

WellFormedDuration(s) ==
    /\ Cardinality(ColonsOf(s)) = 2
    /\ \A i \in 1..3 : IsBase10Integer(ComponentsOf(s)[i])

\* what Python's int() accepts: blanks around an optional sign and digits, in
\* which an underscore may stand only between two digits
IntParsable(c) ==
    \E a \in 1..Len(c) : \E b \in a..Len(c) :
        /\ \A i \in 1..(a - 1) : c[i] = " "
        /\ \A i \in (b + 1)..Len(c) : c[i] = " "
        /\ LET first == IF c[a] \in {"+", "-"} THEN a + 1 ELSE a
           IN  /\ first <= b
               /\ \A i \in first..b :
                     \/ c[i] \in Digits
                     \/ /\ c[i] = "_"
                        /\ first < i /\ i < b
                        /\ c[i - 1] \in Digits /\ c[i + 1] \in Digits

\* empty, missing, not a str, or not three integer-parsable parts
MalformedDuration(x) ==
    \/ x.t # "str"
    \/ x.s = <<>>
    \/ Cardinality(ColonsOf(x.s)) # 2
    \/ \E i \in 1..3 : ~IntParsable(ComponentsOf(x.s)[i])

Called(r) == r.raised # "not called"

\* C2: for a string of exactly three base-10 integer components separated by
\* ':', both time_to_seconds implementations return hours*3600 + minutes*60 +
\* seconds (and so the same value).
C2_WellFormedParse ==
    (time_str.t = "str" /\ WellFormedDuration(time_str.s)) =>
        LET c == ComponentsOf(time_str.s)
            expected == Base10Value(c[1]) * 3600 + Base10Value(c[2]) * 60 + Base10Value(c[3])
        IN  /\ Called(occ_ret) => (occ_ret.raised = "none" /\ occ_ret.val = expected)
            /\ Called(nr_ret) => (nr_ret.raised = "none" /\ nr_ret.val = expected)

\* "1:2:3" has been parsed by both pages and gave 3723
C2_Witness ==
    /\ time_str = Str(<<"1", ":", "2", ":", "3">>)
    /\ Called(occ_ret) /\ occ_ret.val = 3723
    /\ Called(nr_ret) /\ nr_ret.val = 3723

\* C3: time_to_seconds is total: on an empty string, a missing value, a
\* non-string or a string that is not three integer-parsable parts, both
\* implementations return exactly 0 and raise nothing.
C3_MalformedIsZero ==
    MalformedDuration(time_str) =>
        /\ Called(occ_ret) => (occ_ret.raised = "none" /\ occ_ret.val = 0)
        /\ Called(nr_ret) => (nr_ret.raised = "none" /\ nr_ret.val = 0)

\* a missing value and the string "bad" have both gone through both parsers
C3_Witness ==
    /\ time_str \in {NaN, Str(<<"b", "a", "d">>), Str(<<"1", ":", "2">>)}
    /\ Called(occ_ret) /\ occ_ret.val = 0
    /\ Called(nr_ret) /\ nr_ret.val = 0

\* C8: time_to_seconds returns a non-negative integer for every input string,
\* including strings whose colon-separated components carry a sign.
C8_NonNegativeSeconds ==
    time_str.t = "str" =>
        /\ Called(occ_ret) => occ_ret.val >= 0
        /\ Called(nr_ret) => nr_ret.val >= 0

-----------------------------------------------------------------------------
(* Occupancy page claims *)

\* a float that is a number between 0 and 100
IsPercentage(x) == x.k = "fin" /\ x.w >= 0 /\ (x.w < 100 \/ (x.w = 100 /\ x.r = 0))

\* C1: after process_data every record's 'Occupancy %' and 'Utilization %' is
\* a defined number between 0 and 100, never NaN or infinite, for any parsed
\* durations (zero login time, not-ready time at or above login time).
C1_RatiosWithinBounds ==
    \A i \in 1..Len(processed_df.rows) :
        /\ IsPercentage(processed_df.rows[i]["Occupancy %"])
        /\ IsPercentage(processed_df.rows[i]["Utilization %"])

\* a derived record with no login time and 20 minutes not ready (a negative
\* utilization denominator), and one whose not-ready time equals its login time
C1_Witness ==
    /\ \E i \in 1..Len(processed_df.rows) :
          /\ processed_df.rows[i]["LOGIN TIME"] = Str(Clock(0, 0, 0))
          /\ processed_df.rows[i]["NOT READY TIME"] = Str(Clock(0, 20, 0))
          /\ processed_df.rows[i]["Total Active Time"] = 4200
          /\ processed_df.rows[i]["Occupancy %"] = Fin(100)
          /\ processed_df.rows[i]["Utilization %"] = Fin(0)
    /\ \E i \in 1..Len(processed_df.rows) :
          /\ processed_df.rows[i]["LOGIN TIME"] = Str(Clock(2, 0, 0))
          /\ processed_df.rows[i]["NOT READY TIME"] = Str(Clock(2, 0, 0))

RequiredMissing ==
    {Occupancy_required_columns[i] : i \in 1..Len(Occupancy_required_columns)} \ uploaded_file.columns

InCreateVisualizations ==
    pc \in {"process_data", "show_metrics", "tab1", "tab2", "tab3", "tab4"}

\* C4: on the occupancy page a batch lacking required columns gets one error
\* naming exactly the missing required columns, create_visualizations is not
\* called and nothing is rendered; create_visualizations is called only when no
\* required column is missing.
C4_MissingColumnsRejected ==
    (page = "occupancy" /\ uploaded_file.present /\ uploaded_file.readable) =>
        /\ InCreateVisualizations => RequiredMissing = {}
        /\ (RequiredMissing # {} /\ pc = "done") =>
              /\ Len(out) = 1
              /\ out[1].kind = "error" /\ out[1].id = "Missing columns"
              /\ {out[1].data[j] : j \in 1..Len(out[1].data)} = RequiredMissing
              /\ Len(out[1].data) = Cardinality(RequiredMissing)

\* the pass over a file without LOGIN TIME has ended with that one error
C4_Witness ==
    /\ page = "occupancy" /\ pc = "done"
    /\ uploaded_file.present /\ uploaded_file.readable
    /\ RequiredMissing = {"LOGIN TIME"}
    /\ out = <<Emit("error", "Missing columns", <<"LOGIN TIME">>)>>

\* min(100, a * 100 / b) for b > 0
MinPercent(a, b) == IF a >= b THEN Fin(100) ELSE FDiv(a * 100, b)

\* the seconds the occupancy parser gives for record i's raw text in column c
RawSeconds(i, c) == Occupancy_time_to_seconds(df.rows[i][c]).val

\* C7: for every record 'Total Active Time' = on-call + ACW seconds; when
\* login seconds > 0, 'Occupancy %' = min(100, active*100/login); when also
\* login - not_ready > 0, 'Utilization %' = min(100, active*100/(login - not_ready)).
C7_RatioFormulas ==
    \A i \in 1..Len(processed_df.rows) :
        LET login == RawSeconds(i, "LOGIN TIME")
            not_ready == RawSeconds(i, "NOT READY TIME")
            active == RawSeconds(i, "ON CALL TIME") + RawSeconds(i, "ON ACW TIME")
        IN  /\ processed_df.rows[i]["Total Active Time"] = active
            /\ login > 0 => processed_df.rows[i]["Occupancy %"] = MinPercent(active, login)
            /\ (login > 0 /\ login - not_ready > 0) =>
                  processed_df.rows[i]["Utilization %"] = MinPercent(active, login - not_ready)

\* C9: in the frame process_data returns, every 'X_SECONDS' value equals
\* time_to_seconds of the record's raw X; a record whose LOGIN TIME is empty,
\* unparseable or 00:00:00 has 'LOGIN TIME_SECONDS' exactly 0.
C9_SecondsAreParsedValues ==
    \A i \in 1..Len(processed_df.rows) :
        \A c \in TimeColumnsIn(df.columns) :
            processed_df.rows[i][SecondsName(c)] = RawSeconds(i, c)

-----------------------------------------------------------------------------
(* Claims about all three pages *)

\* the columns the specification lists as required for the page's report
SpecRequired(p) ==
    CASE p = "exceptions" -> SeqToSet(Exceptions_required_columns) \cup SeqToSet(exception_cols)
      [] p = "not_ready" -> SeqToSet(NotReady_required_columns)
      [] OTHER -> {}

SpecRequiredMissing == SpecRequired(page) \ uploaded_file.columns

\* C5: on the exceptions page and the not-ready page a readable batch lacking
\* a column the specification lists as required never reaches
\* create_visualizations, and its pass ends with a first message, an error,
\* that names the missing column(s).
C5_SpecRequiredColumnsValidated ==
    (page \in {"exceptions", "not_ready"} /\ uploaded_file.present /\ uploaded_file.readable
       /\ SpecRequiredMissing # {}) =>
        /\ pc \in {"start", "done"}
        /\ pc = "done" =>
              /\ out # <<>>
              /\ out[1].kind = "error"
              /\ out[1].id = "The CSV file must contain these columns"
              /\ SpecRequiredMissing \subseteq SeqToSet(out[1].data)

\* an entry of the pass's output that reports a failure
IsError(e) == e.kind = "error"

\* C6: fail fast, fail whole: within one pass no error is reported after a
\* metric, a chart or a table of that pass has been rendered.
C6_FailFastFailWhole ==
    \A i \in 1..Len(out) :
        IsError(out[i]) => \A j \in 1..(i - 1) : out[j].kind \notin ResultKinds

\* the data of the rendered chart of the given title
ChartData(title) ==
    out[CHOOSE i \in 1..Len(out) : out[i].kind = "chart" /\ out[i].id = title].data

Rendered(title) == \E i \in 1..Len(out) : out[i].kind = "chart" /\ out[i].id = title

\* C10: sum preservation: each rendered total equals the sum of the records'
\* values and the per-group sums add up to that total: the four distribution
\* totals and the per-hour ON CALL sums (occupancy page), the per-group CALLS
\* sums (exceptions page), the per-agent NOT READY sums (not-ready page).
C10_SumPreservation ==
    /\ Rendered("Overall Time Distribution") =>
          LET tm == ChartData("Overall Time Distribution")
              total(c) == SumSeq([i \in 1..Len(df.rows) |-> RawSeconds(i, c)])
          IN  /\ tm["Not Ready"] = total("NOT READY TIME")
              /\ tm["Wait"] = total("WAIT TIME")
              /\ tm["On Call"] = total("ON CALL TIME")
              /\ tm["ACW"] = total("ON ACW TIME")
    /\ Rendered("Hourly Performance Trends") =>
          LET hm == ChartData("Hourly Performance Trends")
          IN  SumSeq([g \in 1..Len(hm) |-> hm[g].on_call])
                = SumSeq([i \in 1..Len(df.rows) |-> RawSeconds(i, "ON CALL TIME")])
    /\ Rendered("Total Calls by Agent Group") =>
          LET gc == ChartData("Total Calls by Agent Group")
          IN  SumSeq([g \in 1..Len(gc) |-> gc[g].sum]) = ColumnSum(df, "CALLS count")
    /\ Rendered("Not Ready Time Analysis") =>
          LET totals == ChartData("Not Ready Time Analysis")[1]
          IN  SumSeq([g \in 1..Len(totals) |-> totals[g].sum])
                = SumSeq(Column(df, "NOT READY SECONDS"))

-----------------------------------------------------------------------------
(* Top-10 selections *)

\* the first min(TopN, n) of n candidates in descending order of their
\* values, candidates of equal value in their original order (candidates
\* without a value after the others, in their original order)
TopTenExpected(values) ==
    LET index == [i \in 1..Len(values) |-> i]
        present == SelectMask(index, [i \in 1..Len(values) |-> values[i].k # "nan"])
        missing == SelectMask(index, [i \in 1..Len(values) |-> values[i].k = "nan"])
        order == StableOrder([j \in 1..Len(present) |-> values[present[j]]], TRUE)
        ranked == [j \in 1..Len(present) |-> present[order[j]]] \o missing
    IN  [i \in 1..(IF Len(ranked) < TopN THEN Len(ranked) ELSE TopN) |-> ranked[i]]

\* the per-agent totals of the not-ready page in their original (group) order
AgentTotalsInGroupOrder == GroupSum(df, "AGENT NAME", Column(df, "NOT READY SECONDS"))

Table(title) ==
    out[CHOOSE i \in 1..Len(out) : out[i].kind = "table" /\ out[i].id = title].data

Shown(title) == \E i \in 1..Len(out) : out[i].kind = "table" /\ out[i].id = title

\* C11: every top-10 selection (occupancy chart, exceptions chart, not-ready
\* table) holds exactly min(10, candidates) entries in descending order of the
\* chosen value, entries of equal value in their original order.
C11_TopTenSelections ==
    /\ Rendered("Top 10 Agents by Occupancy") =>
          LET top == TopTenExpected(Column(processed_df, "Occupancy %"))
          IN  ChartData("Top 10 Agents by Occupancy")
                = [i \in 1..Len(top) |->
                     <<processed_df.rows[top[i]]["Full Name"].s,
                       processed_df.rows[top[i]]["Occupancy %"]>>]
    /\ Rendered("Top 10 Agents by Exception Type") =>
          LET top == TopTenExpected([i \in 1..Len(df.rows) |->
                                       CountKey(df.rows[i][exception_type])])
          IN  ChartData("Top 10 Agents by Exception Type")
                = [i \in 1..Len(top) |->
                     <<df.rows[top[i]]["AGENT"], df.rows[top[i]]["AGENT GROUP"],
                       df.rows[top[i]][exception_type]>>]
    /\ Shown("Top 10 Agents by Not Ready Time") =>
          LET groups == AgentTotalsInGroupOrder
              top == TopTenExpected([g \in 1..Len(groups) |-> Fin(groups[g].sum)])
          IN  Table("Top 10 Agents by Not Ready Time")
                = [i \in 1..Len(top) |->
                     <<groups[top[i]].key, FDiv(groups[top[i]].sum, 3600)>>]

-----------------------------------------------------------------------------
(* format_time *)

\* a number of seconds: an int or a finite float
NumericSeconds(x) == x.t = "num" \/ (x.t = "float" /\ x.f.k = "fin")

\* floor(x) of a number of seconds
FloorOf(x) == IF x.t = "num" THEN x.n ELSE x.f.w

\* the text s is the decimal numeral of n in at least two digits, zero-padded
\* to two and no further
TwoOrMoreDigits(s, n) ==
    /\ Len(s) >= 2
    /\ \A i \in 1..Len(s) : s[i] \in Digits
    /\ Len(s) > 2 => s[1] # "0"
    /\ PlaceSum(s, 1) = n

ColonAt(s) == CHOOSE i \in 1..Len(s) : s[i] = ":"

\* C12: format_time(seconds) returns, for non-negative numeric seconds,
\* floor(seconds/3600) in at least two digits, ':', and
\* floor((seconds mod 3600)/60) in two digits; for a non-numeric or missing
\* input it returns "00:00".
C12_FormatTime ==
    Called(fmt_ret) =>
       /\ (NumericSeconds(seconds) /\ FloorOf(seconds) >= 0) =>
             /\ fmt_ret.raised = "none"
             /\ Cardinality({i \in 1..Len(fmt_ret.val) : fmt_ret.val[i] = ":"}) = 1
             /\ LET s == fmt_ret.val
                    colon == ColonAt(s)
                IN  /\ TwoOrMoreDigits(SubSeq(s, 1, colon - 1), FloorOf(seconds) \div 3600)
                    /\ Len(s) - colon = 2
                    /\ TwoOrMoreDigits(SubSeq(s, colon + 1, Len(s)),
                                       (FloorOf(seconds) % 3600) \div 60)
       /\ seconds.t \in {"str", "none", "nan"} =>
             fmt_ret = [val |-> <<"0", "0", ":", "0", "0">>, raised |-> "none"]

\* 3661 seconds are formatted "01:01"
C12_Witness ==
    /\ seconds = Num(3661)
    /\ fmt_ret = [val |-> <<"0", "1", ":", "0", "1">>, raised |-> "none"]

-----------------------------------------------------------------------------
(* Outcome of a pass *)

ShowsInfo == \E i \in 1..Len(out) : out[i].kind = "info"

ShowsError == \E i \in 1..Len(out) : IsError(out[i])

ShowsResult == \E i \in 1..Len(out) : out[i].kind \in ResultKinds

\* C13: a finished pass has exactly one of three outcomes: the 'please upload'
\* info message (when, and only when, no file is present), one or more error
\* messages, or a rendered result.  (No exception leaves a page script: every
\* statement that can raise stands in a try block, so a pass always reaches
\* its end.)
C13_ExactlyOneOutcome ==
    pc = "done" =>
       /\ ShowsInfo <=> ~uploaded_file.present
       /\ \/ ShowsInfo /\ ~ShowsError /\ ~ShowsResult
          \/ ~ShowsInfo /\ ShowsError /\ ~ShowsResult
          \/ ~ShowsInfo /\ ~ShowsError /\ ShowsResult

-----------------------------------------------------------------------------
(* Duplicate records *)

\* the sum of the values of the records picked by the mask, every record
\* counted as often as it occurs
SumOver(values, mask) ==
    SumSeq([i \in 1..Len(values) |-> IF mask[i] THEN values[i] ELSE 0])

\* what the caller has selected in the multiselect of the given label
Selected(label) ==
    out[CHOOSE i \in 1..Len(out) : out[i].kind = "multiselect" /\ out[i].id = label].data.value

\* C14: nothing deduplicates.  process_data returns one derived record per
\* input record, in input order; every rendered total is the sum over all
\* records, and every rendered group sum is the sum over all records of the
\* group, so two records of the same agent and date both contribute.
C14_NoDeduplication ==
    /\ (page = "occupancy" /\ processed_df # NoFrame) =>
          /\ Len(processed_df.rows) = Len(df.rows)
          /\ \A i \in 1..Len(df.rows) :
                \A c \in df.columns : processed_df.rows[i][c] = df.rows[i][c]
    /\ Rendered("Overall Time Distribution") =>
          LET tm == ChartData("Overall Time Distribution")
              total(c) == SumSeq([i \in 1..Len(df.rows) |-> RawSeconds(i, c)])
          IN  /\ tm["Not Ready"] = total("NOT READY TIME")
              /\ tm["Wait"] = total("WAIT TIME")
              /\ tm["On Call"] = total("ON CALL TIME")
              /\ tm["ACW"] = total("ON ACW TIME")
    /\ Rendered("Hourly Performance Trends") =>
          LET hm == ChartData("Hourly Performance Trends")
              on_call == [i \in 1..Len(df.rows) |-> RawSeconds(i, "ON CALL TIME")]
          IN  /\ \A g \in 1..Len(hm) :
                    hm[g].on_call
                      = SumOver(on_call, [i \in 1..Len(df.rows) |->
                                            HourOf(df.rows[i]["DATE"]) = Num(hm[g].Hour)])
              /\ \A i \in 1..Len(df.rows) :
                    HourOf(df.rows[i]["DATE"]).t = "num" =>
                       \E g \in 1..Len(hm) : Num(hm[g].Hour) = HourOf(df.rows[i]["DATE"])
    /\ Rendered("Total Calls by Agent Group") =>
          LET gc == ChartData("Total Calls by Agent Group")
              calls == [i \in 1..Len(df.rows) |-> CallsCount(df.rows[i])]
          IN  /\ \A g \in 1..Len(gc) :
                    gc[g].sum = SumOver(calls, [i \in 1..Len(df.rows) |->
                                                  df.rows[i]["AGENT GROUP"] = Str(gc[g].key)])
              /\ \A i \in 1..Len(df.rows) :
                    df.rows[i]["AGENT GROUP"].t = "str" =>
                       \E g \in 1..Len(gc) : Str(gc[g].key) = df.rows[i]["AGENT GROUP"]
    /\ Rendered("Not Ready Time Analysis") =>
          LET totals == ChartData("Not Ready Time Analysis")[1]
          IN  /\ \A g \in 1..Len(totals) :
                    totals[g].sum
                      = SumOver(Column(df, "NOT READY SECONDS"),
                                [i \in 1..Len(df.rows) |->
                                   df.rows[i]["AGENT NAME"] = Str(totals[g].key)])
              /\ \A i \in 1..Len(df.rows) :
                    df.rows[i]["AGENT NAME"].t = "str" =>
                       \E g \in 1..Len(totals) : Str(totals[g].key) = df.rows[i]["AGENT NAME"]
    /\ Shown("Detailed Agent Data") =>
          LET stats == Table("Detailed Agent Data")
              member(k) == [i \in 1..Len(df.rows) |->
                              /\ df.rows[i]["DATE"] = Num(stats[k].DATE)
                              /\ df.rows[i]["AGENT NAME"] = Str(stats[k].agent)]
          IN  /\ \A k \in 1..Len(stats) :
                    stats[k].seconds = SumOver(Column(df, "NOT READY SECONDS"), member(k))
              /\ \A i \in 1..Len(df.rows) :
                    (/\ df.rows[i]["DATE"].t = "num"
                     /\ df.rows[i]["AGENT NAME"].t = "str"
                     /\ Selected("Filter by Agents") \in {{}, {df.rows[i]["AGENT NAME"]}}) =>
                       \E k \in 1..Len(stats) : member(k)[i]

\* two records of the same agent and date, each with not-ready seconds, have
\* gone through the not-ready page up to its detailed table
C14_Witness ==
    /\ Shown("Detailed Agent Data")
    /\ Len(df.rows) = 2
    /\ df.rows[1]["AGENT NAME"].t = "str"
    /\ df.rows[1]["AGENT NAME"] = df.rows[2]["AGENT NAME"]
    /\ df.rows[1]["DATE"].t = "num"
    /\ df.rows[1]["DATE"] = df.rows[2]["DATE"]
    /\ df.rows[1]["NOT READY SECONDS"] > 0
    /\ df.rows[2]["NOT READY SECONDS"] > 0
    /\ Len(Table("Detailed Agent Data")) = 1

-----------------------------------------------------------------------------
(* The caller's frame *)

\* C15: deriving leaves the caller's batch alone: once read, df keeps the
\* columns and the cell values pd.read_csv gave it, through process_data
\* (occupancy page) and create_visualizations (not-ready and exceptions pages).
C15_InputBatchUnchanged ==
    (page \in Pages /\ pc # "start" /\ uploaded_file.present /\ uploaded_file.readable) =>
        df = read_csv(uploaded_file)

-----------------------------------------------------------------------------
(* Zero guard of the two ratios *)

\* the utilization denominator of record i: parsed login seconds less parsed
\* not-ready seconds
UtilizationDenominator(i) == RawSeconds(i, "LOGIN TIME") - RawSeconds(i, "NOT READY TIME")

\* C16: one zero-guard policy: a record whose utilization denominator
\* (parsed login seconds - not-ready seconds) is zero or negative gets the
\* substitution occupancy applies to login seconds 0 (the denominator 1), so
\* two such records with the same active seconds have the same 'Utilization %'.
C16_OneZeroGuardPolicy ==
    /\ \A i \in 1..Len(processed_df.rows) :
          UtilizationDenominator(i) <= 0 =>
             processed_df.rows[i]["Utilization %"]
               = MinPercent(processed_df.rows[i]["Total Active Time"], 1)
    /\ \A i, j \in 1..Len(processed_df.rows) :
          (/\ UtilizationDenominator(i) <= 0
           /\ UtilizationDenominator(j) <= 0
           /\ processed_df.rows[i]["Total Active Time"] = processed_df.rows[j]["Total Active Time"]) =>
             processed_df.rows[i]["Utilization %"] = processed_df.rows[j]["Utilization %"]

-----------------------------------------------------------------------------
(* Downloads *)

Download(name) ==
    out[CHOOSE i \in 1..Len(out) : out[i].kind = "download" /\ out[i].id = name].data

\* the records the filter of the given multiselect lets through: all when
\* nothing is selected, else those whose value is selected
Passing(label, values) ==
    {i \in 1..Len(values) : Selected(label) = {} \/ values[i] \in Selected(label)}

\* C17: on every page the downloaded CSV is the display projection: the rows
\* and the columns of the page's detailed table, which holds the records that
\* pass the active filter; the occupancy page exports both percentages as the
\* formatted strings of the table.
C17_DownloadIsDisplayProjection ==
    /\ Shown("Detailed Data View") =>
          LET shown == Table("Detailed Data View")
          IN  /\ Download("agent_occupancy_data.csv") = shown
              /\ Len(shown) = Len(processed_df.rows)
              /\ \A i \in 1..Len(shown) :
                    \A j \in 1..Len(display_columns) :
                       display_columns[j] \in {"Occupancy %", "Utilization %"} =>
                          /\ shown[i][j].t = "str"
                          /\ shown[i][j].s[Len(shown[i][j].s)] = "%"
    /\ Shown("Detailed Data") =>
          LET shown == Table("Detailed Data")
              csv == Download("agent_productivity_filtered.csv")
          IN  /\ Len(shown) = Cardinality(Passing("Filter by Agent Group", Column(df, "AGENT GROUP")))
              /\ Len(csv) = Len(shown)
              /\ \A i \in 1..Len(csv) :
                    /\ DOMAIN csv[i] = SeqToSet(Exceptions_table_columns)
                    /\ \A j \in 1..Len(Exceptions_table_columns) :
                          csv[i][Exceptions_table_columns[j]] = shown[i][j]
    /\ Shown("Detailed Agent Data") =>
          LET shown == Table("Detailed Agent Data")
          IN  /\ Download("not_ready_time_filtered.csv") = shown
              /\ \A k \in 1..Len(shown) :
                    Selected("Filter by Agents") \in {{}, {Str(shown[k].agent)}}

-----------------------------------------------------------------------------
(* Sorting as the caller selects *)

\* the option chosen in the selectbox of the given label
Chosen(label) ==
    out[CHOOSE i \in 1..Len(out) : out[i].kind = "selectbox" /\ out[i].id = label].data.value

\* x does not come after y in the given direction
InDirection(x, y, ascending) == IF ascending THEN ~FLess(y, x) ELSE ~FLess(x, y)

\* a selectbox offers, for each numeric column it sorts by, an ascending and a
\* descending option
OffersBothDirections(box) ==
    \A o \in box.options :
        o.column # "AGENT NAME" =>
           \A ascending \in BOOLEAN :
              \E d \in box.options : d.column = o.column /\ d.ascending = ascending

\* C18: wherever a page sorts records by a numeric column the caller chooses,
\* both directions can be selected and the displayed records follow the chosen
\* column in the chosen direction: the occupancy page's agent breakdown, and
\* the not-ready page's daily table, where records equal in the chosen column
\* follow each other by agent name (by date when sorting by agent name).
C18_SortDirectionSelectable ==
    /\ \A i \in 1..Len(out) : out[i].kind = "selectbox" => OffersBothDirections(out[i].data)
    /\ Rendered("Time Distribution by Agent") =>
          LET rows == ChartData("Time Distribution by Agent")
              by == Chosen("Sort Agents By:")
              key(k) == IF by.column = "Occupancy %" THEN rows[k][by.column]
                        ELSE Fin(rows[k][by.column])
          IN  \A k \in 1..(Len(rows) - 1) : InDirection(key(k), key(k + 1), by.ascending)
    /\ Shown("Detailed Agent Data") =>
          LET rows == Table("Detailed Agent Data")
              by == Chosen("Sort by")
              before(a, b) ==
                  CASE by.column = "DATE" ->
                         \/ IF by.ascending THEN a.DATE < b.DATE ELSE a.DATE > b.DATE
                         \/ a.DATE = b.DATE /\ (a.agent = b.agent \/ StrLess(a.agent, b.agent))
                    [] by.column = "NOT READY HOURS" ->
                         \/ IF by.ascending THEN FLess(a.hours, b.hours) ELSE FLess(b.hours, a.hours)
                         \/ a.hours = b.hours /\ (a.agent = b.agent \/ StrLess(a.agent, b.agent))
                    [] by.column = "AGENT NAME" ->
                         \/ StrLess(a.agent, b.agent)
                         \/ a.agent = b.agent /\ a.DATE <= b.DATE
          IN  \A k \in 1..(Len(rows) - 1) : before(rows[k], rows[k + 1])

====
